---- MODULE Spec2Model ----
(***************************************************************************)
(* State-machine model of colibri's Halofit engine (colibri/nonlinear.py): *)
(* the construction of a halofit_operator, stage by stage, and the tables  *)
(* it leaves on the instance.                                              *)
(*                                                                         *)
(* Numbers.  The code works in double precision.  The model works in       *)
(* integers, in two fixed-point forms:                                     *)
(*   - "linear" quantities of order unity (redshift, growth factor,        *)
(*     delta_c, f_damp, eta, alpha, concentration, density parameters)     *)
(*     are held in thousandths: 1.59 is 1590;                              *)
(*   - strictly positive quantities that span many decades (k, P(k), M,    *)
(*     radii, sigma^2, nu, densities) are held as 1000*log10 of the value  *)
(*     ("milli-dex"): k = 0.001 h/Mpc is -3000.                            *)
(* Products, quotients and real powers are sums, differences and           *)
(* multiples of milli-dex; sums of positive terms go through Pow10F and Lg.*)
(* The 512-point mass grid and the len(k)-point wavenumber grid are        *)
(* tabulated at NM and NK log-equally spaced sample points.                *)
(***************************************************************************)
EXTENDS Integers, Sequences, FiniteSets, TLC

VARIABLES cosmo, inp, pc, err, obj, attrs, removeBaoCalls, ref, npk, call, writes, lim

vars == <<cosmo, inp, pc, err, obj, attrs, removeBaoCalls, ref, npk, call, writes, lim>>

(***************************************************************************)
(* Bounds of the model.                                                    *)
(***************************************************************************)
\* number of sample points at which the wavenumber grid is tabulated
NK == 3
\* number of sample points at which the mass grid is tabulated
NM == 4
\* largest number of redshifts in a caller's grid
MaxNz == 2
\* largest number of instances a caller builds after the one it keeps
MaxBuilt == 2
\* number of knots at which z_form tabulates the growth factor
NZT == 7

(***************************************************************************)
(* Floating-point primitives.                                              *)
(***************************************************************************)
Max(a, b) == IF a >= b THEN a ELSE b

Min(a, b) == IF a <= b THEN a ELSE b

Abs(a) == IF a >= 0 THEN a ELSE -a

\* Piecewise-linear interpolation of the table (xs, ys), xs increasing,
\* clamped to the end values outside [xs[1], xs[Len(xs)]].
PLin(xs, ys, x) ==
    IF x <= xs[1] THEN ys[1]
    ELSE IF x >= xs[Len(xs)] THEN ys[Len(ys)]
    ELSE LET i == CHOOSE n \in 1..(Len(xs) - 1) : xs[n] <= x /\ x < xs[n + 1]
         IN  ys[i] + ((ys[i + 1] - ys[i]) * (x - xs[i])) \div (xs[i + 1] - xs[i])

\* mantissa knots (thousandths) and their log10 (milli-dex)
MantissaKnots == <<1000, 1500, 2000, 3000, 4000, 5000, 6000, 7000, 8000, 9000, 10000>>

MantissaLogs == <<0, 176, 301, 477, 602, 699, 778, 845, 903, 954, 1000>>

\* np.log10 of a positive integer x, in milli-dex
Lg(x) ==
    LET d == CHOOSE n \in 0..9 : 10^n <= x /\ (n = 9 \/ x < 10^(n + 1))
        m == IF d >= 3 THEN x \div 10^(d - 3) ELSE x * 10^(3 - d)
    IN  1000 * d + PLin(MantissaKnots, MantissaLogs, m)

\* 10.**(l/1000) in thousandths, for l in milli-dex; 0 below 10^-3.5 and
\* saturating at 10^6 (the largest value the model distinguishes)
Pow10F(l) ==
    IF l < -4000 THEN 0
    ELSE IF l >= 6000 THEN 1000000000
    ELSE LET d == l \div 1000
             m == PLin(MantissaLogs, MantissaKnots, l % 1000)
         IN  IF d >= 0 THEN m * 10^d ELSE m \div 10^(-d)

\* log10 of a thousandths value (x > 0), in milli-dex
LgF(x) == Lg(x) - 3000

\* log10 of a sum of positive reals given by their milli-dex logs
\* (np.trapz / the "+" of the blend): terms more than 3.5 decades below the
\* largest one are lost, as they nearly are in double precision sums
RECURSIVE SumPow(_, _)
SumPow(ls, top) ==
    IF ls = << >> THEN 0 ELSE Pow10F(Head(ls) - top) + SumPow(Tail(ls), top)

RECURSIVE SeqMax(_)
SeqMax(ls) == IF Len(ls) = 1 THEN ls[1] ELSE Max(Head(ls), SeqMax(Tail(ls)))

LgSum(ls) == LET top == SeqMax(ls) IN top + LgF(SumPow(ls, top))

(***************************************************************************)
(* The cosmology collaborator (colibri/cosmology.py).                      *)
(***************************************************************************)
\* cosmo.__init__: density parameters (thousandths) and density fractions;
\* onu is the summed neutrino density parameter
MakeCosmo(om, onu) ==
    [Omega_m   |-> om,
     Omega_cb  |-> om - onu,
     f_nu_tot  |-> (onu * 1000) \div om,
     f_cb      |-> ((om - onu) * 1000) \div om]

\* the cosmologies the shared default instance may have been built with:
\* Omega_m = 0.309 with massless neutrinos (Omega_cb = Omega_m at this
\* resolution) and with massive neutrinos, sum Omega_nu = 0.004
Cosmologies == {MakeCosmo(309, 0), MakeCosmo(309, 4)}

\* (1+z)^3 in thousandths, z in thousandths
Cube1pz(z) == ((((1000 + z) * (1000 + z)) \div 1000) * (1000 + z)) \div 1000

\* cosmo.Omega_m_z: Omega_m (1+z)^3 (H0/H(z))^2 for the flat model
\* (radiation, 5e-5 today, is below the resolution)
Omega_m_z(c, z) ==
    (c.Omega_m * Cube1pz(z)) \div ((c.Omega_m * Cube1pz(z)) \div 1000 + (1000 - c.Omega_m))

\* cosmo.rho_crit(0.) = 2.775e11 h^2 Msun/Mpc^3, in milli-dex
LgRhoCrit0 == 11443

\* cosmo.D_1: growth factor normalised to 1 today (thousandths), tabulated
\* from the code's integral at z = 0, 1, ..., 30 for Omega_m = 0.309
GrowthZ == [i \in 1..31 |-> 1000 * (i - 1)]

GrowthD == <<1000, 609, 419, 316, 254, 212, 182, 159, 141, 127, 115, 106, 98, 91, 85,
             79, 75, 70, 67, 63, 60, 58, 55, 53, 51, 49, 47, 45, 44, 42, 41>>

D_1(z) == PLin(GrowthZ, GrowthD, z)

\* a smooth (wiggle-free) linear spectrum at z = 0: log10 P against
\* log10 k, milli-dex
ShapeK == <<-4000, -3000, -2000, -1700, -1000, 0, 1000, 2000>>

ShapeP == <<2633, 3556, 4360, 4415, 3813, 1900, -220, -2500>>

Broadband(lgk) == PLin(ShapeK, ShapeP, lgk)

\* cosmo.remove_bao: the no-wiggle spectrum.  Outside (k_low, k_high) =
\* (0.028, 0.45) h/Mpc the result interpolates the input points themselves;
\* inside, it is the smooth curve through the points outside: the splines
\* follow the broadband shape, so what is interpolated between the nearest
\* points outside is the offset of the input from the broadband shape.
BaoLow == -1553

BaoHigh == -347

RemoveBao(lgk, lgp) ==
    [ik \in 1..Len(lgk) |->
        IF lgk[ik] <= BaoLow \/ lgk[ik] >= BaoHigh THEN lgp[ik]
        ELSE LET lo == CHOOSE a \in 1..Len(lgk) :
                           /\ lgk[a] <= BaoLow
                           /\ \A b \in 1..Len(lgk) : lgk[b] <= BaoLow => b <= a
                 hi == CHOOSE a \in 1..Len(lgk) :
                           /\ lgk[a] >= BaoHigh
                           /\ \A b \in 1..Len(lgk) : lgk[b] >= BaoHigh => b >= a
                 olo == lgp[lo] - Broadband(lgk[lo])
                 ohi == lgp[hi] - Broadband(lgk[hi])
             IN  Broadband(lgk[ik]) + olo
                     + ((ohi - olo) * (lgk[ik] - lgk[lo])) \div (lgk[hi] - lgk[lo])]

(***************************************************************************)
(* Grids and the caller's inputs.                                          *)
(***************************************************************************)
\* np.logspace(0., 18., 512): exponent range and number of points
MassLogMax == 18

MassPoints == 512

\* a mass grid whose upper end follows the field
MassGridOfField ==
    [j \in 1..NM |->
        ((IF inp.field = "tot" THEN MassLogMax - 1 ELSE MassLogMax) * 1000 * (j - 1))
            \div (NM - 1)]

\* the mass grid at the NM sample points, log10(M) in milli-dex
MassGrid == [j \in 1..NM |-> (MassLogMax * 1000 * (j - 1)) \div (NM - 1)]

\* a caller's k array: n points log-spaced from 10^(lgmin/1000) to
\* 10^(lgmax/1000) h/Mpc, tabulated at the NK sample points
KSample(kin) ==
    [ik \in 1..NK |-> kin.lgmin + ((kin.lgmax - kin.lgmin) * (ik - 1)) \div (NK - 1)]

KInputs ==
    {[n |-> 1001, lgmin |-> -4000, lgmax |-> 2000],
     [n |-> 101,  lgmin |-> -3000, lgmax |-> 1000],
     [n |-> 100,  lgmin |-> -3000, lgmax |-> 1000],
     [n |-> 50,   lgmin |-> -4000, lgmax |-> 2000],
     [n |-> 1001, lgmin |-> -4000, lgmax |-> 500],
     [n |-> 1001, lgmin |-> -2000, lgmax |-> 2000]}

\* redshifts a caller may ask for (thousandths)
ZVals == {0, 1000, 7000}

IsIncreasing(s) == \A a \in 1..(Len(s) - 1) : s[a] < s[a + 1]

ZInputs ==
    {[kind |-> "scalar", vals |-> <<v>>] : v \in ZVals}
    \cup {[kind |-> "seq", vals |-> s] :
              s \in {t \in UNION {[1..n -> ZVals] : n \in 1..MaxNz} : IsIncreasing(t)}}

\* the caller's P_lin: a shape tag (how its shape relates to (nz, nk)),
\* an amplitude offset and a BAO wiggle offset (milli-dex); every value is
\* strictly positive
PkInputs ==
    {[shape |-> sh, amp |-> a, wig |-> w] :
        sh \in {"ok", "cols+1", "rows-1", "rows+1"}, a \in {0, 4500}, w \in {0, 40}}

PkRows(pkin, nz) ==
    IF pkin.shape = "rows-1" THEN nz - 1 ELSE IF pkin.shape = "rows+1" THEN nz + 1 ELSE nz

PkCols(pkin, nk) == IF pkin.shape = "cols+1" THEN nk + 1 ELSE nk

PkValue(pkin, z, lgk) ==
    pkin.amp + Broadband(lgk) + 2 * LgF(D_1(z))
        + (IF lgk > BaoLow /\ lgk < BaoHigh THEN pkin.wig ELSE 0)

\* the pk argument: its numpy shape and its rows at the sample wavenumbers
PkArray(pkin, zin, kin) ==
    LET nz == Len(zin.vals)
        rows == PkRows(pkin, nz)
    IN  [rows |-> rows,
         cols |-> PkCols(pkin, kin.n),
         lg   |-> [i \in 1..rows |->
                      [ik \in 1..NK |->
                          PkValue(pkin, zin.vals[Min(i, nz)], KSample(kin)[ik])]]]

FieldInputs == {"cb", "tot", "nu"}

(***************************************************************************)
(* halofit_operator: the instance under construction.                      *)
(* obj holds the attributes of self, attrs the names of those that exist.  *)
(* pc is the position inside __init__ / compute_nonlinear_pk; err is the   *)
(* exception that left the constructor, if any.                            *)
(***************************************************************************)
\* Minimum halo concentration by Mead et al. (thousandths)
A_bar == 3130

NoRows == << >>

EmptyObj ==
    [Omega_m |-> 0, Omega_cb |-> 0, f_nu |-> 0, f_cb |-> 0,
     nz |-> 0, nk |-> 0, z |-> << >>, zdim |-> 0, k |-> << >>,
     pk |-> [rows |-> 0, cols |-> 0, lg |-> NoRows],
     pk_nw |-> NoRows, pk_dw |-> NoRows,
     rho_field |-> 0,
     mass |-> << >>, dlnm |-> 0, nm |-> 0, rr |-> << >>,
     sig8 |-> << >>, sig2 |-> NoRows, sigd100 |-> << >>, sigd |-> << >>,
     omz |-> << >>, ocz |-> << >>,
     Deltav |-> << >>, deltac |-> << >>, fdamp |-> << >>, eta |-> << >>, k_star |-> << >>,
     nu |-> NoRows, zf |-> NoRows,
     n_eff |-> << >>, conc |-> NoRows, rv |-> NoRows, alpha |-> << >>, rs |-> NoRows,
     u |-> NoRows, hmf |-> NoRows,
     pk_1h |-> NoRows, pk_2h |-> NoRows, pk_nl |-> NoRows]

\* the tables of compute_nonlinear_pk that are filled entry by entry, and
\* how many times each of their entries has been assigned since the table
\* was allocated
WrittenTables == {"sig2", "nu", "zf", "conc", "rv", "pk_1h", "pk_2h", "pk_nl"}

NoWrites == [t \in WrittenTables |-> NoRows]

Assigned(nz, ncol, n) == [i \in 1..nz |-> [j \in 1..ncol |-> n]]

\* a constructor without assertions on k
KAssertionsNone(kin) == TRUE

\* lines 58-61: the assertions on k (the interpreter runs them: -O is not
\* in use)
KAssertions(kin) == kin.n > 100 /\ kin.lgmax >= 1000 /\ kin.lgmin <= -3000

\* lines 63-97: cosmological parameters read from the cosmology object, the
\* grid sizes, the grids and the spectrum as passed
ReadInputs(c, zin, kin, pkin) ==
    [EmptyObj EXCEPT
        !.Omega_m = c.Omega_m, !.Omega_cb = c.Omega_cb,
        !.f_nu = c.f_nu_tot, !.f_cb = c.f_cb,
        !.nz = Len(zin.vals), !.nk = kin.n,
        !.z = zin.vals, !.zdim = 1, !.k = KSample(kin),
        !.pk = PkArray(pkin, zin, kin)]

\* a constructor that stores its cb fractions back on the cosmology object
CosmologyOverwritten(c) == [c EXCEPT !.Omega_cb = c.Omega_m, !.f_cb = 1000, !.f_nu_tot = 0]

\* a constructor that rescales the matter density of the cosmology object
\* to the cb one
CosmologyRescaled(c) == [c EXCEPT !.Omega_m = c.Omega_cb]

\* lines 63-87 only read the attributes of the cosmology object (the
\* default one is shared by every instance built without a cosmology)
CosmologyAfterRead(c) == c

InputAttrs == {"Omega_m", "Omega_cb", "f_nu", "f_cb", "cosmology", "A_bar",
               "nz", "nk", "z", "k", "pk"}

\* halofit_operator(z, k, pk, field, BAO_smearing): entry into __init__
New(zin, kin, pkin, field, bao) ==
    /\ pc = "idle"
    /\ ref.set => ref.built < MaxBuilt
    /\ inp' = [z |-> zin, k |-> kin, pk |-> pkin, field |-> field, bao |-> bao]
    /\ removeBaoCalls' = 0
    /\ IF KAssertions(kin)
       THEN /\ obj' = ReadInputs(cosmo, zin, kin, pkin)
            /\ attrs' = InputAttrs
            /\ pc' = "smear"
            /\ err' = "none"
       ELSE /\ obj' = EmptyObj
            /\ attrs' = {}
            /\ pc' = "failed"
            /\ err' = "AssertionError"
    /\ cosmo' = CosmologyAfterRead(cosmo)
    /\ ref' = IF ref.set THEN [ref EXCEPT !.built = @ + 1] ELSE ref
    /\ UNCHANGED <<npk, call, writes, lim>>

\* line 102: sv2 = 1/(6 pi^2) trapz(k pk, x = ln k), in milli-dex.
\* A trapezoid between two samples d milli-dex apart has half-width
\* d ln(10)/2000 = 1.151 d / 1000.
HalfStep(d) == LgF((d * 1151) \div 1000)

TrapzTerms(lgf, lgx) ==
    [t \in 1..(2 * (Len(lgx) - 1)) |->
        LET a == (t + 1) \div 2
        IN  HalfStep(lgx[a + 1] - lgx[a]) + lgf[IF t % 2 = 1 THEN a ELSE a + 1]]

LgTrapz(lgf, lgx) == LgSum(TrapzTerms(lgf, lgx))

Sv2(lgk, lgp) == LgTrapz([ik \in 1..Len(lgk) |-> lgk[ik] + lgp[ik]], lgk) - 1772

\* np.exp(-x) in thousandths, for x = 10^(lgx/1000)
ExpNeg(lgx) == Pow10F(-((Min(Pow10F(lgx), 20000) * 434) \div 1000))

\* line 103: the de-wiggled spectrum (pk - pk_nw) exp(-k^2 sv2) + pk_nw
Dewiggle(lgk, lgp, lgnw) ==
    LET sv2 == Sv2(lgk, lgp)
    IN  [ik \in 1..Len(lgk) |->
            lgnw[ik] + LgF(Max(1, 1000 + ((Min(Pow10F(lgp[ik] - lgnw[ik]), 1000000) - 1000)
                                            * ExpNeg(2 * lgk[ik] + sv2)) \div 1000))]

\* lines 99-106: smearing of the BAO.  pk[i] needs row i to exist and
\* remove_bao needs len(pk[i]) = len(k); the rows are visited in order.
SmearError(o) ==
    IF o.pk.rows = 0 THEN "IndexError:index"
    ELSE IF o.pk.cols # o.nk THEN "ValueError:remove_bao"
    ELSE IF o.pk.rows < o.nz THEN "IndexError:index"
    ELSE "none"

\* number of calls of remove_bao made by the list comprehension of line 101
SmearCalls(o) ==
    IF o.pk.rows = 0 THEN 0
    ELSE IF o.pk.cols # o.nk THEN 1
    ELSE Min(o.pk.rows, o.nz)

\* smearing applied whatever the flag says (whenever pk has the rows)
SmearedSpectraAlways(bao, lgk, lg, nz) ==
    IF Len(lg) >= nz
    THEN LET nw == [i \in 1..nz |-> RemoveBao(lgk, lg[i])]
         IN  [pk_nw |-> nw,
              pk_dw |-> [i \in 1..nz |-> Dewiggle(lgk, lg[i], nw[i])],
              calls |-> nz]
    ELSE [pk_nw |-> lg, pk_dw |-> lg, calls |-> 0]

\* lines 99-106 (and 652-659 of nonlinear_pk): the no-wiggle and de-wiggled
\* spectra and the number of calls of remove_bao they cost
SmearedSpectra(bao, lgk, lg, nz) ==
    IF bao
    THEN LET nw == [i \in 1..nz |-> RemoveBao(lgk, lg[i])]
         IN  [pk_nw |-> nw,
              pk_dw |-> [i \in 1..nz |-> Dewiggle(lgk, lg[i], nw[i])],
              calls |-> nz]
    ELSE [pk_nw |-> lg, pk_dw |-> lg, calls |-> 0]

Smear ==
    /\ pc = "smear"
    /\ IF inp.bao /\ SmearError(obj) # "none"
       THEN /\ removeBaoCalls' = removeBaoCalls + SmearCalls(obj)
            /\ pc' = "failed"
            /\ err' = SmearError(obj)
            /\ UNCHANGED <<obj, attrs>>
       ELSE LET sm == SmearedSpectra(inp.bao, obj.k, obj.pk.lg, obj.nz)
            IN  /\ removeBaoCalls' = removeBaoCalls + sm.calls
                /\ obj' = [obj EXCEPT !.pk_nw = sm.pk_nw, !.pk_dw = sm.pk_dw]
                /\ attrs' = attrs \cup {"pk_nw", "pk_dw"}
                /\ pc' = "shape"
                /\ UNCHANGED err
    /\ UNCHANGED <<cosmo, inp, ref, npk, call, writes, lim>>

\* lines 109-116: the shape check, then z and k as arrays.  np.asarray([z])
\* of a one-element sequence z is two-dimensional.
CheckShape ==
    /\ pc = "shape"
    /\ IF <<obj.pk.rows, obj.pk.cols>> # <<obj.nz, obj.nk>>
       THEN /\ pc' = "failed"
            /\ err' = "IndexError:shape"
            /\ UNCHANGED obj
       ELSE /\ obj' = [obj EXCEPT
                          !.zdim = IF obj.nz = 1 /\ inp.z.kind = "seq" THEN 2 ELSE 1]
            /\ pc' = "field"
            /\ UNCHANGED err
    /\ UNCHANGED <<cosmo, inp, attrs, removeBaoCalls, ref, npk, call, writes, lim>>

\* a constructor that takes any field for the total matter
FieldAny(field) == TRUE

\* the density of the total matter whatever the field
RhoFieldTotal(c, field) == LgRhoCrit0 + LgF(c.Omega_m)

\* lines 119-124: the fields the constructor knows
FieldRecognized(field) == field \in {"cb", "tot"}

\* lines 118-124: the density of the chosen field, in milli-dex
RhoField(c, field) ==
    LgRhoCrit0 + LgF(IF field = "cb" THEN c.Omega_cb ELSE c.Omega_m)

SetField ==
    /\ pc = "field"
    /\ IF FieldRecognized(inp.field)
       THEN /\ obj' = [obj EXCEPT !.rho_field = RhoField(cosmo, inp.field)]
            /\ attrs' = attrs \cup {"rho_field"}
            /\ pc' = "mass"
            /\ UNCHANGED err
       ELSE /\ pc' = "failed"
            /\ err' = "ValueError:field"
            /\ UNCHANGED <<obj, attrs>>
    /\ UNCHANGED <<cosmo, inp, removeBaoCalls, ref, npk, call, writes, lim>>

\* lines 240-249: radius_of_mass, (3 M / (4 pi rho_field))^(1/3), milli-dex
Radius_of_mass(lgm, rho) == (lgm + 477 - 1099 - rho) \div 3

\* lines 126-131: the mass grid.  dlnm = ln(mass[1]/mass[0]) in millionths.
InitMass ==
    /\ pc = "mass"
    /\ obj' = [obj EXCEPT
                  !.mass = MassGrid,
                  !.dlnm = (MassLogMax * 2302585) \div (MassPoints - 1),
                  !.nm = MassPoints,
                  !.rr = [j \in 1..NM |-> Radius_of_mass(MassGrid[j], obj.rho_field)]]
    /\ attrs' = attrs \cup {"mass", "lnmass", "dlnm", "nm", "rr"}
    /\ pc' = "sigma"
    /\ UNCHANGED <<cosmo, inp, err, removeBaoCalls, ref, npk, call, writes, lim>>

(***************************************************************************)
(* compute_nonlinear_pk: mass variance, displacement, fit parameters.      *)
(***************************************************************************)
\* UF.extrapolate_log(x, y, xmin, xmax): the log-spaced arrays continued
\* with their own step until they cover [xmin, xmax], y along the straight
\* lines (in log-log) through its first two and its last two points.
ExtLowCount(lgx, lo) ==
    LET step == lgx[2] - lgx[1]
    IN  IF lgx[1] <= lo THEN 0 ELSE (lgx[1] - lo + step - 1) \div step

ExtHighCount(lgx, hi) ==
    LET step == lgx[2] - lgx[1]
    IN  IF lgx[Len(lgx)] >= hi THEN 0 ELSE (hi - lgx[Len(lgx)] + step - 1) \div step

ExtrapolateLog(lgx, lgy, lo, hi) ==
    LET n    == Len(lgx)
        nlo  == ExtLowCount(lgx, lo)
        nhi  == ExtHighCount(lgx, hi)
        step == lgx[2] - lgx[1]
        at(t) == t - nlo
    IN  [x |-> [t \in 1..(nlo + n + nhi) |->
                   IF at(t) < 1 THEN lgx[1] - (1 - at(t)) * step
                   ELSE IF at(t) > n THEN lgx[n] + (at(t) - n) * step
                   ELSE lgx[at(t)]],
         y |-> [t \in 1..(nlo + n + nhi) |->
                   IF at(t) < 1 THEN lgy[1] - (1 - at(t)) * (lgy[2] - lgy[1])
                   ELSE IF at(t) > n THEN lgy[n] + (at(t) - n) * (lgy[n] - lgy[n - 1])
                   ELSE lgy[at(t)]]]

\* UF.TopHat_window(x)^2 in milli-dex, x = 10^(lgx/1000): 1 for small x and
\* the mean envelope 4.5/x^4 of (3 (sin x - x cos x)/x^3)^2 for large x
TopHat_window2(lgx) == Min(0, 653 - 4 * lgx)

\* lines 255-282: sigma^2 at one mass (radius lgr), milli-dex
Sigma2At(lgk, lgp, lgr) ==
    LET e == ExtrapolateLog(lgk, lgp, -6000, 8000)
    IN  LgTrapz([t \in 1..Len(e.x) |->
                    3 * e.x[t] + e.y[t] - 1295 + TopHat_window2(e.x[t] + lgr)], e.x)

sigma2(lgk, lgp, rr) == [j \in 1..Len(rr) |-> Sigma2At(lgk, lgp, rr[j])]

\* lines 287-308: sigma_d(R) for every redshift, milli-dex
sigma_d(lgk, pk, lgr) ==
    [i \in 1..Len(pk) |->
        LET e == ExtrapolateLog(lgk, pk[i], -6000, 8000)
        IN  LgTrapz([t \in 1..Len(e.x) |->
                        e.x[t] + e.y[t] - 1772 + TopHat_window2(e.x[t] + lgr)], e.x) \div 2]

\* cosmology.py lines 3150-3152: the assertions of compute_sigma_8 on k
\* (k_max >= pi/4, k_min <= 0.001, len(k) >= 100)
Sigma8Assertions(kin) == kin.lgmax >= -105 /\ kin.lgmin <= -3000 /\ kin.n >= 100

\* cosmo.compute_sigma_8 (R = 8 Mpc/h, on the grid as given), milli-dex
compute_sigma_8(lgk, lgp) ==
    LgTrapz([ik \in 1..Len(lgk) |->
                3 * lgk[ik] + lgp[ik] - 1295 + TopHat_window2(lgk[ik] + 903)], lgk) \div 2

\* a pipeline that adds sigma^2 to the table already on the instance
ComputeSigmaAccumulating ==
    /\ pc = "sigma"
    /\ IF Sigma8Assertions(inp.k)
       THEN /\ obj' = [obj EXCEPT
                  !.sig8 = [i \in 1..obj.nz |-> compute_sigma_8(obj.k, obj.pk.lg[i])],
                  !.sig2 = [i \in 1..obj.nz |->
                              [j \in 1..NM |->
                                  IF obj.sig2 = NoRows
                                  THEN sigma2(obj.k, obj.pk.lg[i], obj.rr)[j]
                                  ELSE obj.sig2[i][j] + 301]],
                  !.sigd100 = sigma_d(obj.k, obj.pk.lg, 2000),
                  !.sigd = sigma_d(obj.k, obj.pk.lg, -3000)]
            /\ attrs' = attrs \cup {"sig8", "sig2", "sigd100", "sigd"}
            /\ writes' = [writes EXCEPT !.sig2 = Assigned(obj.nz, NM, 1)]
            /\ pc' = "fit"
            /\ UNCHANGED err
       ELSE /\ attrs' = attrs \cup {"sig8", "sig2"}
            /\ UNCHANGED obj
            /\ writes' = [writes EXCEPT !.sig2 = Assigned(obj.nz, NM, 0)]
            /\ pc' = "failed"
            /\ err' = "AssertionError"
    /\ UNCHANGED <<cosmo, inp, removeBaoCalls, ref, npk, call, lim>>

\* lines 153-162
ComputeSigma ==
    /\ pc = "sigma"
    /\ IF Sigma8Assertions(inp.k)
       THEN /\ obj' = [obj EXCEPT
                  !.sig8 = [i \in 1..obj.nz |-> compute_sigma_8(obj.k, obj.pk.lg[i])],
                  !.sig2 = [i \in 1..obj.nz |-> sigma2(obj.k, obj.pk.lg[i], obj.rr)],
                  !.sigd100 = sigma_d(obj.k, obj.pk.lg, 2000),
                  !.sigd = sigma_d(obj.k, obj.pk.lg, -3000)]
            /\ attrs' = attrs \cup {"sig8", "sig2", "sigd100", "sigd"}
            /\ writes' = [writes EXCEPT !.sig2 = Assigned(obj.nz, NM, 1)]
            /\ pc' = "fit"
            /\ UNCHANGED err
       ELSE /\ attrs' = attrs \cup {"sig8", "sig2"}
            /\ UNCHANGED obj
            /\ writes' = [writes EXCEPT !.sig2 = Assigned(obj.nz, NM, 0)]
            /\ pc' = "failed"
            /\ err' = "AssertionError"
    /\ UNCHANGED <<cosmo, inp, removeBaoCalls, ref, npk, call, lim>>

\* lines 356-365: Delta_v = 418 omm^-0.352 (1 + 0.916 f_nu), milli-dex
Delta_v(c, omm) ==
    2621 - (352 * LgF(omm)) \div 1000 + LgF(1000 + (916 * c.f_nu_tot) \div 1000)

\* lines 336-351: delta_c, thousandths (0.0314 ln s8 = 0.0723 log10 s8)
delta_c(c, lgs8, omm) ==
    ((((1590 + (723 * lgs8) \div 10000) * (1000 + (123 * LgF(omm)) \div 10000)) \div 1000)
        * (1000 + (262 * c.f_nu_tot) \div 1000)) \div 1000

\* lines 387-396: f_damp = 0.0095 sigd100^1.37, milli-dex
fd(lgsigd100) == -2022 + (1370 * lgsigd100) \div 1000

\* lines 401-410: eta = 0.98 - 0.12 A_bar - 0.3 sigma_8, thousandths
eta_bloat(lgs8) == 980 - (12 * A_bar) \div 100 - (3 * Pow10F(lgs8)) \div 10

\* lines 415-424: k_star = 0.584 / sigd, milli-dex
k_s(lgsigd) == -234 - lgsigd

\* lines 164-173
FitParams ==
    /\ pc = "fit"
    /\ LET omz == [i \in 1..obj.nz |-> Omega_m_z(cosmo, obj.z[i])]
           ocz == [i \in 1..obj.nz |-> (omz[i] * obj.Omega_cb) \div obj.Omega_m]
       IN  obj' = [obj EXCEPT
                      !.omz = omz,
                      !.ocz = ocz,
                      !.Deltav = [i \in 1..obj.nz |-> Delta_v(cosmo, ocz[i])],
                      !.deltac = [i \in 1..obj.nz |-> delta_c(cosmo, obj.sig8[i], ocz[i])],
                      !.fdamp = [i \in 1..obj.nz |-> fd(obj.sigd100[i])],
                      !.eta = [i \in 1..obj.nz |-> eta_bloat(obj.sig8[i])],
                      !.k_star = [i \in 1..obj.nz |-> k_s(obj.sigd[i])]]
    /\ attrs' = attrs \cup {"omz", "ocz", "Deltav", "deltac", "fdamp", "eta", "k_star"}
    /\ pc' = "nu"
    /\ UNCHANGED <<cosmo, inp, err, removeBaoCalls, ref, npk, call, writes, lim>>

\* the ratio the other way up, sigma / delta_c
NuInverse(dc, lgs2) == lgs2 \div 2 - LgF(dc)

\* line 176: one entry of nu = delta_c / sigma, milli-dex
Nu(dc, lgs2) == LgF(dc) - lgs2 \div 2

\* line 176
PeakHeight ==
    /\ pc = "nu"
    /\ obj' = [obj EXCEPT
                  !.nu = [i \in 1..obj.nz |->
                             [j \in 1..NM |-> Nu(obj.deltac[i], obj.sig2[i][j])]]]
    /\ attrs' = attrs \cup {"nu"}
    /\ writes' = [writes EXCEPT !.nu = Assigned(obj.nz, NM, 1)]
    /\ pc' = "zform"
    /\ UNCHANGED <<cosmo, inp, err, removeBaoCalls, ref, npk, call, lim>>

(***************************************************************************)
(* z_form: redshift of formation.                                          *)
(***************************************************************************)
\* line 459: frac = 0.01, milli-dex
LgFrac == -2000

\* line 461: z_tmp = np.linspace(0., 30., 1001), at the NZT sample knots
ZTabMax == 30

z_tmp == [n \in 1..NZT |-> (ZTabMax * 1000 * (n - 1)) \div (NZT - 1)]

\* line 465
Dzf == [n \in 1..NZT |-> D_1(z_tmp[n])]

\* line 466: zf_D = interp1d(Dzf, z_tmp): evaluating it outside the
\* tabulated range of D_1 raises ValueError
ZfDInRange(d) == Dzf[NZT] <= d /\ d <= Dzf[1]

\* an interpolant that runs through the redshift knots the other way round
ZfDMirrored(d) ==
    IF d = Dzf[NZT] THEN z_tmp[1]
    ELSE LET n == CHOOSE m \in 1..(NZT - 1) : Dzf[m + 1] < d /\ d <= Dzf[m]
         IN  z_tmp[NZT] - z_tmp[n]
                 - ((z_tmp[n + 1] - z_tmp[n]) * (Dzf[n] - d)) \div (Dzf[n] - Dzf[n + 1])

\* the interpolant inside the range (Dzf decreases along the table)
ZfD(d) ==
    IF d = Dzf[NZT] THEN z_tmp[NZT]
    ELSE LET n == CHOOSE m \in 1..(NZT - 1) : Dzf[m + 1] < d /\ d <= Dzf[m]
         IN  z_tmp[n] + ((z_tmp[n + 1] - z_tmp[n]) * (Dzf[n] - d)) \div (Dzf[n] - Dzf[n + 1])

\* one entry of res without the comparison of line 476
ZFormEntryUnclamped(rhs, z) ==
    IF ~ZfDInRange(rhs) THEN z ELSE ZfD(rhs)

\* lines 474-478: one entry of res
ZFormEntry(rhs, z) ==
    IF ~ZfDInRange(rhs) THEN z
    ELSE IF ZfD(rhs) < z THEN z
    ELSE ZfD(rhs)

\* line 470-471: sig_int(fm), the interpolant of sigma on the extended mass
\* array (straight lines in log-log between the points)
InterpAt(xs, ys, x) ==
    LET n == CHOOSE m \in 1..(Len(xs) - 1) :
                 \/ xs[m] <= x /\ x < xs[m + 1]
                 \/ m = 1 /\ x < xs[1]
                 \/ m = Len(xs) - 1 /\ x >= xs[Len(xs)]
    IN  ys[n] + ((ys[n + 1] - ys[n]) * (x - xs[n])) \div (xs[n + 1] - xs[n])

\* line 472: rhs = D_1(z) delta_c / sigma(frac M), thousandths
ZFormRhs(z, dc, mass, sig2row, j) ==
    LET e == ExtrapolateLog(mass, [m \in 1..Len(mass) |-> sig2row[m] \div 2],
                            -1000 + LgFrac + mass[1], 1000 + mass[Len(mass)])
    IN  Pow10F(LgF(D_1(z)) + LgF(dc) - InterpAt(e.x, e.y, LgFrac + mass[j]))

\* lines 473-478: the assignments to one entry of res: line 475, then
\* line 477 when the inverted value is below z; line 478 alone when the
\* interpolant raises
ZFormAssignments(rhs, z) ==
    IF ~ZfDInRange(rhs) THEN 1
    ELSE IF ZfD(rhs) < z THEN 2
    ELSE 1

z_form_assignments(o) ==
    [i \in 1..o.nz |->
        [j \in 1..NM |->
            ZFormAssignments(ZFormRhs(o.z[i], o.deltac[i], o.mass, o.sig2[i], j), o.z[i])]]

\* lines 453-480
z_form(o) ==
    [i \in 1..o.nz |->
        [j \in 1..NM |->
            ZFormEntry(ZFormRhs(o.z[i], o.deltac[i], o.mass, o.sig2[i], j), o.z[i])]]

\* a z_form that also rescales the peak heights
FormationRedshiftRescalingNu ==
    /\ pc = "zform"
    /\ obj' = [obj EXCEPT !.zf = z_form(obj),
                          !.nu = [i \in 1..obj.nz |-> [j \in 1..NM |-> obj.nu[i][j] + 1]]]
    /\ attrs' = attrs \cup {"zf"}
    /\ writes' = [writes EXCEPT !.zf = z_form_assignments(obj)]
    /\ pc' = "halo"
    /\ UNCHANGED <<cosmo, inp, err, removeBaoCalls, ref, npk, call, lim>>

\* line 179
FormationRedshift ==
    /\ pc = "zform"
    /\ obj' = [obj EXCEPT !.zf = z_form(obj)]
    /\ attrs' = attrs \cup {"zf"}
    /\ writes' = [writes EXCEPT !.zf = z_form_assignments(obj)]
    /\ pc' = "halo"
    /\ UNCHANGED <<cosmo, inp, err, removeBaoCalls, ref, npk, call, lim>>

(***************************************************************************)
(* Effective index, concentration, radii.                                  *)
(***************************************************************************)
\* index of the grid segment used at abscissa x (the end segments outside)
Segment(xs, x) ==
    CHOOSE m \in 1..(Len(xs) - 1) :
        \/ xs[m] <= x /\ x < xs[m + 1]
        \/ m = 1 /\ x < xs[1]
        \/ m = Len(xs) - 1 /\ x >= xs[Len(xs)]

\* line 189: the sign of sig2 - deltac^2 at grid point j is the sign of
\* this difference of logs
SigMinusDelta(o, i, j) == o.sig2[i][j] - 2 * LgF(o.deltac[i])

\* lines 190-191: the starting point 13 - 1.75 (1+z) of the search, log10 M
M1Seed(z) == 13000 - (1750 * (1000 + z)) \div 1000

HasRoot(o, i) ==
    \E j \in 1..(NM - 1) : SigMinusDelta(o, i, j) >= 0 /\ SigMinusDelta(o, i, j + 1) < 0

\* the root of the interpolant, log10 M in milli-dex
RootOf(o, i) ==
    LET j == CHOOSE m \in 1..(NM - 1) :
                 SigMinusDelta(o, i, m) >= 0 /\ SigMinusDelta(o, i, m + 1) < 0
    IN  o.mass[j] + ((o.mass[j + 1] - o.mass[j]) * SigMinusDelta(o, i, j))
                        \div (SigMinusDelta(o, i, j) - SigMinusDelta(o, i, j + 1))

\* a search that stops at the upper end of the grid when it fails
M_1GridEnd(o, i) ==
    IF M1Seed(o.z[i]) >= o.mass[1] /\ M1Seed(o.z[i]) <= o.mass[NM] /\ HasRoot(o, i)
    THEN RootOf(o, i)
    ELSE o.mass[NM]

\* lines 190-191: M_1.  sig_int_2 raises ValueError outside the mass grid:
\* at once when the seed lies outside, or when the search for a root that
\* the grid does not hold walks out of it; M_1 is then the seed.
M_1(o, i) ==
    IF M1Seed(o.z[i]) >= o.mass[1] /\ M1Seed(o.z[i]) <= o.mass[NM] /\ HasRoot(o, i)
    THEN RootOf(o, i)
    ELSE M1Seed(o.z[i])

\* lines 193-195: d ln sig2 / d ln M at M_1 (thousandths), from the
\* spline through the grid points (it extrapolates outside the grid)
LogDer(o, i, lgm) ==
    LET n == Segment(o.mass, lgm)
    IN  ((o.sig2[i][n + 1] - o.sig2[i][n]) * 1000) \div (o.mass[n + 1] - o.mass[n])

\* line 197
NEff(o, i) == -3000 - 3 * LogDer(o, i, M_1(o, i))

\* the ratio taken the other way round
c_bullInverse(zf, z) == (A_bar * (1000 + z)) \div (1000 + zf)

\* lines 485-497: c = A_bar (1 + zf)/(1 + z), thousandths
c_bull(zf, z) == (A_bar * (1000 + zf)) \div (1000 + z)

\* line 201: rv = (3 M / (4 pi rho_field Delta_v))^(1/3), milli-dex
VirialRadius(lgm, rho, deltav) == (lgm + 477 - 1099 - rho - deltav) \div 3

\* lines 370-382: alpha = 3.24 * 1.85^n_eff, thousandths
alp(neff) == Pow10F(511 + (267 * neff) \div 1000)

\* lines 184-207
HaloProps ==
    /\ pc = "halo"
    /\ LET neff == [i \in 1..obj.nz |-> NEff(obj, i)]
           conc == [i \in 1..obj.nz |-> [j \in 1..NM |-> c_bull(obj.zf[i][j], obj.z[i])]]
           rv   == [i \in 1..obj.nz |->
                       [j \in 1..NM |->
                           VirialRadius(obj.mass[j], obj.rho_field, obj.Deltav[i])]]
       IN  obj' = [obj EXCEPT
                      !.n_eff = neff,
                      !.conc = conc,
                      !.rv = rv,
                      !.alpha = [i \in 1..obj.nz |-> alp(neff[i])],
                      !.rs = [i \in 1..obj.nz |->
                                 [j \in 1..NM |-> rv[i][j] - LgF(conc[i][j])]]]
    /\ attrs' = attrs \cup {"n_eff", "conc", "rv", "alpha", "rs"}
    /\ writes' = [writes EXCEPT !.conc = Assigned(obj.nz, NM, 1),
                                !.rv = Assigned(obj.nz, NM, 1)]
    /\ pc' = "profile"
    /\ UNCHANGED <<cosmo, inp, err, removeBaoCalls, ref, npk, call, lim>>

(***************************************************************************)
(* NFW profile and halo mass function (locals of compute_nonlinear_pk).    *)
(***************************************************************************)
\* ln(1+c) - c/(1+c), thousandths (c in thousandths)
NFWNorm(c) == (LgF(1000 + c) * 2303) \div 1000 - (c * 1000) \div (1000 + c)

\* lines 429-448: u_NFW(c, x) for x > 0, milli-dex: 1 at small x and the
\* decay 1/((ln(1+c) - c/(1+c)) x^2) of the bracket at large x (the sine
\* and cosine integrals are replaced by these two limits)
u_NFW(c, lgx) == Min(0, -2 * lgx - LgF(Max(1, NFWNorm(c))))

\* lines 210-215: u[i,j] = u_NFW(conc, k * nu^eta * rs)
ProfileTable(o) ==
    [i \in 1..o.nz |->
        [j \in 1..NM |->
            [ik \in 1..NK |->
                u_NFW(o.conc[i][j],
                      o.k[ik] + (o.eta[i] * o.nu[i][j]) \div 1000 + o.rs[i][j])]]]

Profile ==
    /\ pc = "profile"
    /\ obj' = [obj EXCEPT !.u = ProfileTable(obj)]
    /\ pc' = "hmf"
    /\ UNCHANGED <<cosmo, inp, err, attrs, removeBaoCalls, ref, npk, call, writes, lim>>

\* signed reals: a sign and the log10 of the magnitude (milli-dex)
Pos(l) == [s |-> "pos", l |-> l]

Neg(l) == [s |-> "neg", l |-> l]

Zero == [s |-> "zero", l |-> 0]

NaN == [s |-> "nan", l |-> 0]

\* lines 429-448 for any x >= 0.  At x = 0 scipy.special.sici returns
\* Ci = -inf for both arguments, so Ci_2 - Ci_1 is nan (and so is
\* sin(c x)/((1+c) x) = 0/0): the value returned is nan.
u_NFW_at(c, x) == IF x.s = "pos" THEN Pos(u_NFW(c, x.l)) ELSE NaN

\* lines 516-530: Sheth-Tormen f(nu), milli-dex; A = 0.3222, a = 0.707,
\* p = 0.3
ST_mass_fun(lgnu) ==
    -492 + (-347 + 2 * lgnu) \div 2
         + LgF(1000 + Pow10F(-((300 * (-151 + 2 * lgnu)) \div 1000)))
         - (Min(Pow10F(2 * lgnu), 1000000) * 154) \div 1000

\* line 548: np.gradient(nu, dlnm)/nu, the logarithmic slope of nu along
\* the mass grid (thousandths): central differences inside, one-sided at
\* the two ends
NuLogDer(nurow, mass, j) ==
    LET a == IF j = 1 THEN 1 ELSE j - 1
        b == IF j = Len(mass) THEN j ELSE j + 1
    IN  ((nurow[b] - nurow[a]) * 1000) \div (mass[b] - mass[a])

\* lines 536-556: dndM = rho_field/m^2 * log_der * f(nu)
dndM(o) ==
    [i \in 1..o.nz |->
        [j \in 1..NM |->
            LET ld == NuLogDer(o.nu[i], o.mass, j)
                l  == o.rho_field - 2 * o.mass[j] + LgF(Max(1, Abs(ld)))
                          + ST_mass_fun(o.nu[i][j])
            IN  IF ld > 0 THEN Pos(l) ELSE IF ld < 0 THEN Neg(l) ELSE Zero]]

MassFunction ==
    /\ pc = "hmf"
    /\ obj' = [obj EXCEPT !.hmf = dndM(obj)]
    /\ pc' = "assemble"
    /\ UNCHANGED <<cosmo, inp, err, attrs, removeBaoCalls, ref, npk, call, writes, lim>>

(***************************************************************************)
(* 1-halo term, 2-halo term and their blend.                               *)
(***************************************************************************)
RECURSIVE SignedSumPow(_, _)
SignedSumPow(ts, top) ==
    IF ts = << >> THEN 0
    ELSE (IF Head(ts).s = "pos" THEN Pow10F(Head(ts).l - top)
          ELSE IF Head(ts).s = "neg" THEN -Pow10F(Head(ts).l - top)
          ELSE 0) + SignedSumPow(Tail(ts), top)

RECURSIVE SignedTop(_)
SignedTop(ts) ==
    IF ts = << >> THEN -1000000
    ELSE IF Head(ts).s \in {"pos", "neg"} THEN Max(Head(ts).l, SignedTop(Tail(ts)))
    ELSE SignedTop(Tail(ts))

\* np.trapz of a signed integrand fs over the log-abscissa lgx
SignedTrapz(fs, lgx) ==
    LET ts == [t \in 1..(2 * (Len(lgx) - 1)) |->
                  LET a == (t + 1) \div 2
                      f == fs[IF t % 2 = 1 THEN a ELSE a + 1]
                  IN  [s |-> f.s, l |-> HalfStep(lgx[a + 1] - lgx[a]) + f.l]]
        top == SignedTop(ts)
        sum == SignedSumPow(ts, top)
    IN  IF sum > 0 THEN Pos(top + LgF(sum))
        ELSE IF sum < 0 THEN Neg(top + LgF(-sum))
        ELSE Zero

\* line 228-229: the integral over mass of (M/rho)^2 hmf u^2 M
OneHaloIntegral(o, iz, ik) ==
    SignedTrapz([j \in 1..NM |->
                    [s |-> o.hmf[iz][j].s,
                     l |-> 3 * o.mass[j] - 2 * o.rho_field + o.hmf[iz][j].l
                               + 2 * o.u[iz][j][ik]]],
                [j \in 1..NM |-> (o.mass[j] * 2303) \div 1000])

\* the sixth power of (1 - exp(-k/k_star)), milli-dex (1 - exp(-x) is x for
\* small x)
OneHaloDampingSixth(lgx) ==
    IF lgx < -2000 THEN 6 * lgx
    ELSE 6 * LgF(Max(1, 1000 - ExpNeg(lgx)))

\* line 230: (1 - exp(-k/k_star)**2)**3, milli-dex, for x = k/k_star
\* (1 - exp(-2x) is 2x for small x)
OneHaloDamping(lgx) ==
    IF lgx < -2000 THEN 3 * (301 + lgx)
    ELSE 3 * LgF(Max(1, 1000 - (ExpNeg(lgx) * ExpNeg(lgx)) \div 1000))

\* np.tanh(x)**2 in thousandths, x = 10^(lgx/1000)
TanhK == <<-1000, -500, -250, 0, 250, 500, 1000>>

TanhV == <<10, 94, 260, 580, 892, 993, 1000>>

Tanh2(lgx) == IF lgx < -1000 THEN Pow10F(2 * lgx) ELSE PLin(TanhK, TanhV, lgx)

\* lines 221-222, 231: 1 - fdamp * tanh^2(k sigd / sqrt(fdamp)), thousandths
TwoHaloFactor(lgk, lgsigd, lgfd) ==
    LET t2 == Tanh2(lgk + lgsigd - lgfd \div 2)
    IN  1000 - (IF t2 = 0 THEN 0 ELSE Pow10F(lgfd + LgF(t2)))

Scale(v, dl) == IF v.s \in {"pos", "neg"} THEN [s |-> v.s, l |-> v.l + dl] ELSE v

\* line 231
TwoHalo(lgdw, f) ==
    IF f > 0 THEN Pos(lgdw + LgF(f))
    ELSE IF f < 0 THEN Neg(lgdw + LgF(-f))
    ELSE Zero

\* line 232: (p1**alpha + p2**alpha)**(1/alpha); a negative base raised to
\* the real power alpha is nan
Blend(p1, p2, alpha) ==
    IF p1.s \in {"neg", "nan"} \/ p2.s \in {"neg", "nan"} THEN NaN
    ELSE IF p1.s = "zero" THEN p2
    ELSE IF p2.s = "zero" THEN p1
    ELSE Pos((LgSum(<<(alpha * p1.l) \div 1000, (alpha * p2.l) \div 1000>>) * 1000)
                 \div alpha)

\* an assembly that keeps the damped 1-halo term in an array of its own
AssembleAssignmentsOnce(t) == 1

\* lines 228-232: the assignments to each entry of a row: pk_1h[iz,ik] is
\* assigned the integral on line 229 and multiplied in place on line 230
AssembleAssignments(t) == IF t = "pk_1h" THEN 2 ELSE 1

\* lines 220-234
Assemble ==
    /\ pc = "assemble"
    /\ LET p1 == [iz \in 1..obj.nz |->
                     [ik \in 1..NK |->
                         Scale(OneHaloIntegral(obj, iz, ik),
                               OneHaloDamping(obj.k[ik] - obj.k_star[iz]))]]
           p2 == [iz \in 1..obj.nz |->
                     [ik \in 1..NK |->
                         TwoHalo(obj.pk_dw[iz][ik],
                                 TwoHaloFactor(obj.k[ik], obj.sigd[iz], obj.fdamp[iz]))]]
       IN  obj' = [obj EXCEPT
                      !.pk_1h = p1,
                      !.pk_2h = p2,
                      !.pk_nl = [iz \in 1..obj.nz |->
                                    [ik \in 1..NK |->
                                        Blend(p1[iz][ik], p2[iz][ik],
                                              Max(1, obj.alpha[iz]))]]]
    /\ attrs' = attrs \cup {"pk_1h", "pk_2h", "pk_nl"}
    /\ writes' = [writes EXCEPT
                     !.pk_1h = Assigned(obj.nz, NK, AssembleAssignments("pk_1h")),
                     !.pk_2h = Assigned(obj.nz, NK, AssembleAssignments("pk_2h")),
                     !.pk_nl = Assigned(obj.nz, NK, AssembleAssignments("pk_nl"))]
    /\ pc' = "done"
    /\ UNCHANGED <<cosmo, inp, err, removeBaoCalls, ref, npk, call, lim>>

(***************************************************************************)
(* nonlinear_pk: the linear spectra of a Boltzmann solver, the Halofit     *)
(* operator applied to the cb-cb one, the neutrino parts added linearly.   *)
(***************************************************************************)
CodeInputs == {"camb", "class", "eh", "halofit"}

NoPk ==
    [pos |-> "none", code |-> "", bao |-> FALSE, k |-> << >>,
     pk_cbcb |-> NoRows, pk_cbnu |-> NoRows, pk_nunu |-> NoRows,
     pk_nw |-> NoRows, pk_dw |-> NoRows,
     pk_nl_cbcb |-> NoRows, pk_nw_cbcb |-> NoRows, pk_dw_cbcb |-> NoRows,
     pk_nl |-> NoRows]

\* the spectrum handed to the Halofit operator: of shape (nz, nk), with
\* the acoustic feature of the solver
SolverPk == [shape |-> "ok", amp |-> 0, wig |-> 40]

\* lines 631-648: the linear auto- and cross-spectra.  CAMB and CLASS
\* return cb-nu and nu-nu spectra (below the cb-cb one: -150 and -300
\* milli-dex here), Eisenstein-Hu has none and they are set to zero.
LinearSpectra(code, zin, kin) ==
    LET cbcb == PkArray(SolverPk, zin, kin).lg
        nz == Len(zin.vals)
    IN  [pk_cbcb |-> cbcb,
         pk_cbnu |-> [i \in 1..nz |-> [ik \in 1..NK |->
                         IF code = "eh" THEN Zero ELSE Pos(cbcb[i][ik] - 150)]],
         pk_nunu |-> [i \in 1..nz |-> [ik \in 1..NK |->
                         IF code = "eh" THEN Zero ELSE Pos(cbcb[i][ik] - 300)]]]

\* a thousandths factor times a signed value
Times(f, v) == IF f = 0 /\ v.s # "nan" THEN Zero ELSE Scale(v, LgF(f))

\* sum of signed values; nan is contagious
SignedSum(ts) ==
    IF \E a \in 1..Len(ts) : ts[a].s = "nan" THEN NaN
    ELSE LET top == SignedTop(ts)
             sum == SignedSumPow(ts, top)
         IN  IF sum > 0 THEN Pos(top + LgF(sum))
             ELSE IF sum < 0 THEN Neg(top + LgF(-sum))
             ELSE Zero

TotalMatterCbOnly(c, nlcbcb, cbnu, nunu) ==
    Times((c.f_cb * c.f_cb) \div 1000, nlcbcb)

\* line 668: f_cb^2 pk_nl_cbcb + 2 f_nu f_cb pk_cbnu + f_nu^2 pk_nunu
TotalMatter(c, nlcbcb, cbnu, nunu) ==
    SignedSum(<<Times((c.f_cb * c.f_cb) \div 1000, nlcbcb),
                Times((2 * c.f_nu_tot * c.f_cb) \div 1000, cbnu),
                Times((c.f_nu_tot * c.f_nu_tot) \div 1000, nunu)>>)

\* a constructor that takes any name for a Boltzmann solver
CodeAny(code) == TRUE

\* lines 634-648: the names of the solvers (one spelling of each here)
CodeRecognized(code) == code \in {"camb", "class", "eh"}

\* nonlinear_pk(z, k, code, BAO_smearing): lines 618-662, up to and
\* including the entry into halofit_operator.__init__ (whose assertions on
\* k are the ones just passed)
NewPk(zin, kin, code, bao) ==
    /\ pc = "idle"
    /\ IF ~KAssertions(kin)
       THEN /\ pc' = "failed"
            /\ err' = "AssertionError"
            /\ npk' = [NoPk EXCEPT !.pos = "failed", !.code = code, !.bao = bao,
                                    !.k = <<kin>>]
            /\ UNCHANGED <<inp, obj, attrs, removeBaoCalls>>
       ELSE IF ~CodeRecognized(code)
       THEN /\ pc' = "failed"
            /\ err' = "NameError"
            /\ npk' = [NoPk EXCEPT !.pos = "failed", !.code = code, !.bao = bao,
                                    !.k = <<kin>>]
            /\ UNCHANGED <<inp, obj, attrs, removeBaoCalls>>
       ELSE LET zarr == [kind |-> "seq", vals |-> zin.vals]
                lin == LinearSpectra(code, zin, kin)
                sm == SmearedSpectra(bao, KSample(kin), lin.pk_cbcb, Len(zin.vals))
            IN  /\ npk' = [NoPk EXCEPT
                              !.pos = "HO", !.code = code, !.bao = bao, !.k = <<kin>>,
                              !.pk_cbcb = lin.pk_cbcb, !.pk_cbnu = lin.pk_cbnu,
                              !.pk_nunu = lin.pk_nunu,
                              !.pk_nw = sm.pk_nw, !.pk_dw = sm.pk_dw]
                /\ removeBaoCalls' = sm.calls
                /\ inp' = [z |-> zarr, k |-> kin, pk |-> SolverPk,
                           field |-> "cb", bao |-> bao]
                /\ obj' = ReadInputs(cosmo, zarr, kin, SolverPk)
                /\ attrs' = InputAttrs
                /\ pc' = "smear"
                /\ err' = "none"
    /\ cosmo' = CosmologyAfterRead(cosmo)
    /\ UNCHANGED <<ref, call, writes, lim>>

\* lines 664-668: the tables taken from the operator and the total matter
\* non-linear spectrum
FinishPk ==
    /\ npk.pos = "HO"
    /\ pc = "done"
    /\ npk' = [npk EXCEPT
                  !.pos = "done",
                  !.pk_nl_cbcb = obj.pk_nl,
                  !.pk_nw_cbcb = obj.pk_nw,
                  !.pk_dw_cbcb = obj.pk_dw,
                  !.pk_nl = [i \in 1..obj.nz |-> [ik \in 1..NK |->
                                TotalMatter(cosmo, obj.pk_nl[i][ik],
                                            npk.pk_cbnu[i][ik], npk.pk_nunu[i][ik])]]]
    /\ UNCHANGED <<cosmo, inp, pc, err, obj, attrs, removeBaoCalls, ref, call, writes, lim>>

(***************************************************************************)
(* The caller.                                                             *)
(***************************************************************************)
\* a method of the operator called on its own: its name, its arguments,
\* the value returned
NoMethod == [fn |-> "none", c |-> 0, x |-> Zero, ret |-> Zero, done |-> FALSE]

\* limber_GW.limber after __init__ (limber_GW.py lines 47-92): no power
\* spectrum, no window function; nothing called on it yet.
\*   k_set  : self.k, self.z, self.k_min, self.k_max exist
\*   interp : self.power_spectra_interpolator exists
\*   order  : the keys of self.window_function, in insertion order
\*   win    : the value under each key: a 2-D array of interpolators of
\*            shape (bins, nl) ("tiled"), or a list of bins interpolators
\*   last   : the last call made, the exception it raised, what it returned
\*            and, for limber_angular_power_spectra, its arguments
WindowNames == {"galaxy", "GW", "mine"}

NoWindow == [kind |-> "absent", bins |-> 0, nl |-> 0]

NoReturn ==
    [op |-> "none", err |-> "none", keys |-> {}, Cl |-> << >>,
     l |-> [n |-> 0, range |-> "ok"], sel |-> [none |-> TRUE, names |-> << >>]]

NoLimber ==
    [k_set |-> FALSE, interp |-> FALSE, order |-> << >>,
     win |-> [w \in WindowNames |-> NoWindow], last |-> NoReturn]

\* the arguments of the default call, held while no constructor runs
NoCall ==
    [z |-> [kind |-> "scalar", vals |-> <<0>>],
     k |-> [n |-> 1001, lgmin |-> -4000, lgmax |-> 2000],
     pk |-> [shape |-> "ok", amp |-> 0, wig |-> 0],
     field |-> "cb", bao |-> TRUE]

\* a finished instance the caller holds on to
NoRef == [set |-> FALSE, inp |-> NoCall, obj |-> EmptyObj, built |-> 0]

\* the caller drops the instance (or the exception) and is free to build
\* another one
Discard ==
    /\ pc \in {"done", "failed"}
    /\ npk.pos # "HO"
    /\ pc' = "idle"
    /\ inp' = NoCall
    /\ err' = "none"
    /\ obj' = EmptyObj
    /\ attrs' = {}
    /\ removeBaoCalls' = 0
    /\ npk' = NoPk
    /\ writes' = NoWrites
    /\ UNCHANGED <<cosmo, ref, call, lim>>

\* the caller keeps the first halofit_operator it completes, to compare
\* later ones with
Keep ==
    /\ pc = "done"
    /\ npk.pos = "none"
    /\ ~ref.set
    /\ ref' = [set |-> TRUE, inp |-> inp, obj |-> obj, built |-> 0]
    /\ pc' = "idle"
    /\ inp' = NoCall
    /\ err' = "none"
    /\ obj' = EmptyObj
    /\ attrs' = {}
    /\ removeBaoCalls' = 0
    /\ writes' = NoWrites
    /\ UNCHANGED <<cosmo, npk, call, lim>>

\* the caller calls compute_nonlinear_pk() on the finished instance,
\* having kept a copy of what the construction left on it
Recompute ==
    /\ pc = "done"
    /\ npk.pos = "none"
    /\ ref.built < MaxBuilt
    /\ ref' = [set |-> TRUE, inp |-> inp,
               obj |-> IF ref.set THEN ref.obj ELSE obj,
               built |-> ref.built + 1]
    /\ pc' = "sigma"
    /\ UNCHANGED <<cosmo, inp, err, obj, attrs, removeBaoCalls, npk, call, writes, lim>>

Init ==
    /\ cosmo \in Cosmologies
    /\ inp = NoCall
    /\ pc = "idle"
    /\ err = "none"
    /\ obj = EmptyObj
    /\ attrs = {}
    /\ removeBaoCalls = 0
    /\ ref = NoRef
    /\ npk = NoPk
    /\ call = NoMethod
    /\ writes = NoWrites
    /\ lim = NoLimber

Next ==
    \/ \E zin \in ZInputs, kin \in KInputs, pkin \in PkInputs,
          field \in FieldInputs, bao \in BOOLEAN : New(zin, kin, pkin, field, bao)
    \/ \E zin \in ZInputs, kin \in KInputs, code \in CodeInputs, bao \in BOOLEAN :
          NewPk(zin, kin, code, bao)
    \/ FinishPk
    \/ Smear
    \/ CheckShape
    \/ SetField
    \/ InitMass
    \/ ComputeSigma
    \/ FitParams
    \/ PeakHeight
    \/ FormationRedshift
    \/ HaloProps
    \/ Profile
    \/ MassFunction
    \/ Assemble
    \/ Discard

Spec == Init /\ [][Next]_vars

(***************************************************************************)
(* Two instances side by side: the caller keeps one finished operator and  *)
(* builds others, from a smaller choice of (valid) arguments.              *)
(***************************************************************************)
TwinZ == {[kind |-> "seq", vals |-> <<0>>], [kind |-> "seq", vals |-> <<0, 1000>>]}

TwinK == {[n |-> 1001, lgmin |-> -4000, lgmax |-> 2000]}

TwinPk == {[shape |-> "ok", amp |-> 0, wig |-> w] : w \in {0, 40}}

NextTwin ==
    \/ \E zin \in TwinZ, kin \in TwinK, pkin \in TwinPk,
          field \in {"cb", "tot"}, bao \in BOOLEAN : New(zin, kin, pkin, field, bao)
    \/ Smear
    \/ CheckShape
    \/ SetField
    \/ InitMass
    \/ ComputeSigma
    \/ FitParams
    \/ PeakHeight
    \/ FormationRedshift
    \/ HaloProps
    \/ Profile
    \/ MassFunction
    \/ Assemble
    \/ Keep
    \/ Discard

SpecTwin == Init /\ [][NextTwin]_vars

(***************************************************************************)
(* One instance whose pipeline is run again after the construction.        *)
(***************************************************************************)
NextAgain ==
    \/ \E zin \in TwinZ, kin \in TwinK, pkin \in TwinPk,
          field \in {"cb", "tot"}, bao \in BOOLEAN : New(zin, kin, pkin, field, bao)
    \/ Smear
    \/ CheckShape
    \/ SetField
    \/ InitMass
    \/ ComputeSigma
    \/ FitParams
    \/ PeakHeight
    \/ FormationRedshift
    \/ HaloProps
    \/ Profile
    \/ MassFunction
    \/ Assemble
    \/ Recompute

SpecAgain == Init /\ [][NextAgain]_vars

(***************************************************************************)
(* The methods of the operator as functions of their arguments: a call is  *)
(* drawn, the method is applied to it.                                     *)
(***************************************************************************)
\* concentrations (thousandths) and abscissae x = k nu^eta r_s >= 0
ConcInputs == {500, 1000, A_bar, 5000, 10000, 20000, 50000}

XInputs == {Zero} \cup {Pos(l) : l \in {-6000, -3000, -1000, 0, 1000, 3000, 6000}}

\* limber_3x2pt.load_power_spectra(k, z, power_spectra, galaxy_bias): the
\* lengths of z and k, whether power_spectra has the shape (len(z), len(k)),
\* and galaxy_bias: None, or a table of that shape ("ok") or not ("bad")
TableInputs ==
    {[nz |-> nz, nk |-> nk, pk |-> pk, bias |-> b] :
        nz \in {1, 2, 4}, nk \in {2, 4}, pk \in {"ok", "bad"}, b \in {"None", "ok", "bad"}}

\* limber.py lines 79-115.  The result: the exception raised ("none" when
\* the method returns), the attributes set on the instance, the bias table
\* interpolated (its shape and whether it is made of ones), and the kind of
\* the interpolation.
\* Lines 100-107 set the scales and redshifts.  Line 110: with galaxy_bias
\* None the table is np.ones((nz,nk)), where nz and nk are names bound
\* neither in the method nor in the module (the lengths are self.nz and
\* self.nk): NameError.  Lines 113-115: interp2d raises ValueError on a
\* table whose shape is not (len(z), len(k)).
load_power_spectra(x) ==
    LET scales == {"k", "z", "nk", "nz", "k_min", "k_max", "z_int_min", "z_int_max"}
        kind   == IF x.nz > 3 /\ x.nk > 3 THEN "cubic" ELSE "linear"
        none   == [rows |-> 0, cols |-> 0, ones |-> FALSE]
        given  == [rows |-> x.nz, cols |-> x.nk, ones |-> FALSE]
    IN  IF x.bias = "None"
        THEN [err |-> "NameError", attrs |-> scales, table |-> none, kind |-> "none"]
        ELSE IF x.pk = "bad"
        THEN [err |-> "ValueError", attrs |-> scales, table |-> none, kind |-> kind]
        ELSE IF x.bias = "bad"
        THEN [err |-> "ValueError",
              attrs |-> scales \cup {"power_spectra_interpolator"},
              table |-> none, kind |-> kind]
        ELSE [err |-> "none",
              attrs |-> scales \cup {"power_spectra_interpolator",
                                     "galaxy_bias_interpolator"},
              table |-> given, kind |-> kind]

InitCall ==
    /\ cosmo \in Cosmologies
    /\ inp = NoCall
    /\ pc = "idle"
    /\ err = "none"
    /\ obj = EmptyObj
    /\ attrs = {}
    /\ removeBaoCalls = 0
    /\ ref = NoRef
    /\ npk = NoPk
    /\ writes = NoWrites
    /\ lim = NoLimber
    /\ call \in {[fn |-> "u_NFW", c |-> c, x |-> x, ret |-> Zero, done |-> FALSE] :
                    c \in ConcInputs, x \in XInputs}
                \cup {[fn |-> "load_power_spectra", c |-> 0, x |-> x, ret |-> Zero,
                       done |-> FALSE] : x \in TableInputs}

\* u_NFW(c, x) is called
ApplyUNFW ==
    /\ call.fn = "u_NFW"
    /\ ~call.done
    /\ call' = [call EXCEPT !.ret = u_NFW_at(call.c, call.x), !.done = TRUE]
    /\ UNCHANGED <<cosmo, inp, pc, err, obj, attrs, removeBaoCalls, ref, npk, writes, lim>>

\* load_power_spectra(k, z, power_spectra, galaxy_bias) is called on a
\* limber_3x2pt instance
ApplyLoadPowerSpectra ==
    /\ call.fn = "load_power_spectra"
    /\ ~call.done
    /\ call' = [call EXCEPT !.ret = load_power_spectra(call.x), !.done = TRUE]
    /\ UNCHANGED <<cosmo, inp, pc, err, obj, attrs, removeBaoCalls, ref, npk, writes, lim>>

NextCall ==
    \/ ApplyUNFW
    \/ ApplyLoadPowerSpectra

SpecCall == InitCall /\ [][NextCall]_vars

(***************************************************************************)
(* limber_GW.limber: loading the power spectrum and the window functions,  *)
(* then the angular power spectra (colibri/limber_GW.py).                  *)
(***************************************************************************)
\* the largest number of redshift bins of a window
MaxBins == 2

\* len(ll) given to a built-in loader, len(l) given to the spectra
LLengths == {1, 2}

\* the multipoles l of a call: how many, and where they lie with respect
\* to k_min f_K(z_min) and k_max f_K(z_max)
LInputs == {[n |-> n, range |-> r] : n \in LLengths, r \in {"ok"}}
               \cup {[n |-> 1, range |-> "low"], [n |-> 2, range |-> "high"]}

\* the windows argument: None, or a list of at most two names
Selections ==
    {[none |-> TRUE, names |-> << >>]}
    \cup {[none |-> FALSE, names |-> q] :
             q \in UNION {[1..n -> WindowNames \cup {"shear"}] : n \in 0..2}}

\* the caller has taken the outcome of the last call
Idle == lim.last.op = "none"

Raised(op, e) == [NoReturn EXCEPT !.op = op, !.err = e]

\* lines 97-124: load_power_spectra(k, z, power_spectra); interp2d raises
\* ValueError when power_spectra is not of shape (len(z), len(k)), after
\* self.k, self.z, self.k_min, self.k_max were set
LoadPowerSpectra(shapeok) ==
    /\ Idle
    /\ lim' = [lim EXCEPT
                  !.k_set = TRUE,
                  !.interp = lim.interp \/ shapeok,
                  !.last = Raised("load_power_spectra",
                                  IF shapeok THEN "none" ELSE "ValueError")]
    /\ UNCHANGED <<cosmo, inp, pc, err, obj, attrs, removeBaoCalls, ref, npk, call, writes>>

\* a key added to a dictionary goes last; a key already there keeps its place
KeyAdded(order, name) ==
    IF \E a \in 1..Len(order) : order[a] = name THEN order ELSE Append(order, name)

\* lines 384-444: load_galaxy_clustering_window_functions(z, nz, ll, bias,
\* name): one interpolator per bin, tiled along ll (line 444)
LoadGalaxyWindow(name, bins, nl) ==
    /\ Idle
    /\ lim' = [lim EXCEPT
                  !.order = KeyAdded(lim.order, name),
                  !.win[name] = [kind |-> "tiled", bins |-> bins, nl |-> nl],
                  !.last = Raised("load_galaxy_clustering_window_functions", "none")]
    /\ UNCHANGED <<cosmo, inp, pc, err, obj, attrs, removeBaoCalls, ref, npk, call, writes>>

\* lines 957-986: load_custom_window_functions(z, window, name): the
\* assertions on z and window, then a list with one interpolator per bin
LoadCustomWindow(name, bins, valid) ==
    /\ Idle
    /\ IF valid
       THEN lim' = [lim EXCEPT
                       !.order = KeyAdded(lim.order, name),
                       !.win[name] = [kind |-> "list", bins |-> bins, nl |-> 0],
                       !.last = Raised("load_custom_window_functions", "none")]
       ELSE lim' = [lim EXCEPT
                       !.last = Raised("load_custom_window_functions", "AssertionError")]
    /\ UNCHANGED <<cosmo, inp, pc, err, obj, attrs, removeBaoCalls, ref, npk, call, writes>>

\* lines 1044-1051: the keys of a dictionary filled from a list of names
\* (a name repeated in the list is one key)
RECURSIVE Distinct(_)
Distinct(q) ==
    IF q = << >> THEN << >>
    ELSE LET front == Distinct(SubSeq(q, 1, Len(q) - 1))
         IN  KeyAdded(front, q[Len(q)])

\* name is a key of self.window_function
IsKey(L, name) == \E a \in 1..Len(L.order) : L.order[a] = name

\* a loop that goes on after an unknown name and reports the last one
LastUnknown(L, sel) ==
    IF sel.none \/ \A a \in 1..Len(sel.names) : IsKey(L, sel.names[a]) THEN ""
    ELSE sel.names[CHOOSE a \in 1..Len(sel.names) :
                      /\ ~IsKey(L, sel.names[a])
                      /\ \A b \in (a + 1)..Len(sel.names) : IsKey(L, sel.names[b])]

\* line 1050: the first requested name that is not a key of
\* self.window_function ("" when there is none)
FirstUnknown(L, sel) ==
    IF sel.none \/ \A a \in 1..Len(sel.names) : IsKey(L, sel.names[a]) THEN ""
    ELSE sel.names[CHOOSE a \in 1..Len(sel.names) :
                      /\ ~IsKey(L, sel.names[a])
                      /\ \A b \in 1..(a - 1) : IsKey(L, sel.names[b])]

\* the value of the window of bin b of a key on the integration grid: a
\* small integer standing for the array
WindowWeight(name, b) ==
    b + (CASE name = "galaxy" -> 10 [] name = "GW" -> 20 [] OTHER -> 30)

\* lines 1094, 1101: simps(cH_chi2 W_X[bin_i] W_Y[bin_j] PS_lz, x = zz),
\* with 2 + il standing for PS_lz[il]
LimberIntegral(X, bi, Y, bj, il) == WindowWeight(X, bi) * WindowWeight(Y, bj) * (2 + il)

KeyIndex(keys, X) == CHOOSE a \in 1..Len(keys) : keys[a] = X

\* the loops without the assignments of lines 1095 and 1102: the entries
\* below the diagonal keep the zeros of line 1067
ClEntryUnmirrored(keys, X, Y, bi, bj, il) ==
    IF KeyIndex(keys, X) = KeyIndex(keys, Y)
    THEN IF bi <= bj THEN LimberIntegral(X, bi, Y, bj, il) ELSE 0
    ELSE IF KeyIndex(keys, X) < KeyIndex(keys, Y)
    THEN LimberIntegral(X, bi, Y, bj, il)
    ELSE 0

\* lines 1084-1102: Cl['X-Y'][bi, bj, il] as the loops leave it: for one
\* key the integral is taken for bi <= bj and copied to [bj, bi]; for two
\* keys it is taken with X the earlier key and copied to 'Y-X'[bj, bi]
ClEntry(keys, X, Y, bi, bj, il) ==
    IF KeyIndex(keys, X) = KeyIndex(keys, Y)
    THEN LimberIntegral(X, Min(bi, bj), Y, Max(bi, bj), il)
    ELSE IF KeyIndex(keys, X) < KeyIndex(keys, Y)
    THEN LimberIntegral(X, bi, Y, bj, il)
    ELSE LimberIntegral(Y, bj, X, bi, il)

\* line 1086, 1090: windows_to_use[key][i, j] for j in range(n_l): a list
\* cannot be indexed by a pair (TypeError), a tiled array has len(ll)
\* columns (IndexError beyond)
WindowError(w, nl) ==
    IF w.kind = "list" THEN "TypeError"
    ELSE IF nl > w.nl THEN "IndexError"
    ELSE "none"

\* a check of self.k in the place of the interpolator
PowerSpectraStarted(L) == L.k_set

\* lines 1037-1038: self.power_spectra_interpolator exists
PowerSpectraLoaded(L) == L.interp

\* lines 1016-1105: limber_angular_power_spectra(l, windows) on instance L
limber_angular_power_spectra(L, l, sel) ==
    LET op == "limber_angular_power_spectra"
        keys == IF sel.none THEN L.order ELSE Distinct(sel.names)
        bad == {a \in 1..Len(keys) : WindowError(L.win[keys[a]], l.n) # "none"}
    IN  IF ~PowerSpectraLoaded(L)
        THEN Raised(op, "AttributeError:Power spectra have not been loaded yet")
        ELSE IF l.range # "ok"
        THEN Raised(op, "AssertionError")
        ELSE IF FirstUnknown(L, sel) # ""
        THEN [Raised(op, "KeyError") EXCEPT !.keys = {FirstUnknown(L, sel)}]
        ELSE IF Len(keys) = 0
        THEN Raised(op, "AttributeError:No window function has been computed!")
        ELSE IF bad # {}
        THEN Raised(op, WindowError(L.win[keys[CHOOSE a \in bad : \A b \in bad : a <= b]], l.n))
        ELSE [NoReturn EXCEPT
              !.op = op,
              !.keys = {<<keys[a], keys[b]>> : a, b \in 1..Len(keys)},
              !.Cl = [pr \in {<<keys[a], keys[b]>> : a, b \in 1..Len(keys)} |->
                         [bi \in 1..L.win[pr[1]].bins |->
                             [bj \in 1..L.win[pr[2]].bins |->
                                 [il \in 1..l.n |->
                                     ClEntry(keys, pr[1], pr[2], bi, bj, il)]]]]]

AngularSpectra(l, sel) ==
    /\ Idle
    /\ lim' = [lim EXCEPT !.last = [limber_angular_power_spectra(lim, l, sel) EXCEPT
                                       !.l = l, !.sel = sel]]
    /\ UNCHANGED <<cosmo, inp, pc, err, obj, attrs, removeBaoCalls, ref, npk, call, writes>>

\* the caller takes the outcome of the call
Taken ==
    /\ ~Idle
    /\ lim' = [lim EXCEPT !.last = NoReturn]
    /\ UNCHANGED <<cosmo, inp, pc, err, obj, attrs, removeBaoCalls, ref, npk, call, writes>>

NextLimber ==
    \/ \E shapeok \in BOOLEAN : LoadPowerSpectra(shapeok)
    \/ \E name \in {"galaxy", "GW"}, bins \in 1..MaxBins, nl \in LLengths :
          LoadGalaxyWindow(name, bins, nl)
    \/ \E bins \in 1..MaxBins, valid \in BOOLEAN : LoadCustomWindow("mine", bins, valid)
    \/ \E l \in LInputs, sel \in Selections : AngularSpectra(l, sel)
    \/ Taken

SpecLimber == Init /\ [][NextLimber]_vars

(***************************************************************************)
(* Properties of the construction of one instance (under Spec).            *)
(***************************************************************************)
\* the target of the inversion for redshift iz and mass j
ZfTarget(iz, j) == ZFormRhs(obj.z[iz], obj.deltac[iz], obj.mass, obj.sig2[iz], j)

\* C1: for every redshift of the grid and every mass of the mass grid the
\* formation redshift is at least the redshift, and it is exactly the
\* redshift whenever the growth target lies outside the tabulated D1 range
\* or the inverted value is below the redshift.
ZFormClamped ==
    obj.zf # NoRows =>
        \A iz \in 1..obj.nz, j \in 1..NM :
            /\ obj.zf[iz][j] >= obj.z[iz]
            /\ ~ZfDInRange(ZfTarget(iz, j)) => obj.zf[iz][j] = obj.z[iz]
            /\ (ZfDInRange(ZfTarget(iz, j)) /\ ZfD(ZfTarget(iz, j)) < obj.z[iz])
                   => obj.zf[iz][j] = obj.z[iz]

\* a table of formation redshifts with a target out of range, an inverted
\* value below z and an inverted value above z
ZFormClampedWitness ==
    /\ obj.zf # NoRows
    /\ \E iz \in 1..obj.nz, j \in 1..NM : ~ZfDInRange(ZfTarget(iz, j))
    /\ \E iz \in 1..obj.nz, j \in 1..NM :
           ZfDInRange(ZfTarget(iz, j)) /\ ZfD(ZfTarget(iz, j)) < obj.z[iz]
    /\ \E iz \in 1..obj.nz, j \in 1..NM : obj.zf[iz][j] > obj.z[iz]

\* C2: the non-linear spectrum of a finished instance is strictly positive
\* at every (z, k) (every input spectrum of the model is strictly positive).
PkNlPositive ==
    pc = "done" =>
        \A iz \in 1..obj.nz, ik \in 1..NK : obj.pk_nl[iz][ik].s = "pos"

\* the BAO flag of the call under way
CallBao == IF npk.pos # "none" THEN npk.bao ELSE inp.bao

\* C3: with BAO smearing disabled remove_bao is never called, pk_nw and
\* pk_dw are the input spectrum itself, the 2-halo term is the input
\* spectrum times its damping factor, and nonlinear_pk keeps
\* pk_nw = pk_dw = pk_cbcb (its own and the operator's).
BaoOffIdentity ==
    (pc # "idle" /\ ~CallBao) =>
        /\ removeBaoCalls = 0
        /\ "pk_dw" \in attrs => obj.pk_dw = obj.pk.lg /\ obj.pk_nw = obj.pk.lg
        /\ pc = "done" =>
               \A iz \in 1..obj.nz, ik \in 1..NK :
                   obj.pk_2h[iz][ik] =
                       TwoHalo(obj.pk.lg[iz][ik],
                               TwoHaloFactor(obj.k[ik], obj.sigd[iz], obj.fdamp[iz]))
        /\ npk.pos \in {"HO", "done"} =>
               npk.pk_nw = npk.pk_cbcb /\ npk.pk_dw = npk.pk_cbcb
        /\ npk.pos = "done" =>
               npk.pk_nw_cbcb = npk.pk_cbcb /\ npk.pk_dw_cbcb = npk.pk_cbcb

\* a nonlinear_pk finished without smearing, on a spectrum with wiggles
BaoOffIdentityWitness ==
    /\ npk.pos = "done"
    /\ ~npk.bao
    /\ inp.pk.wig > 0
    /\ obj.pk_2h # NoRows

\* C4: a spectrum of the wrong shape (k being valid) makes construction
\* fail with the shape error and nothing else, before any table exists.
ShapeErrorFirst ==
    (pc # "idle" /\ npk.pos = "none" /\ KAssertions(inp.k) /\ inp.pk.shape # "ok") =>
        /\ pc \in {"smear", "shape", "failed"}
        /\ pc = "failed" => err = "IndexError:shape"
        /\ attrs \cap {"mass", "sig2", "pk_nl"} = {}

\* C5: an unknown field (the other arguments being valid) makes
\* construction fail with ValueError before the mass grid exists and before
\* compute_nonlinear_pk runs: the failed instance has no P_nl.
FieldErrorBeforeMass ==
    (pc # "idle" /\ npk.pos = "none" /\ KAssertions(inp.k) /\ inp.pk.shape = "ok"
         /\ inp.field \notin {"cb", "tot"}) =>
        /\ pc \in {"smear", "shape", "field", "failed"}
        /\ pc = "failed" => err = "ValueError:field"
        /\ attrs \cap {"mass", "sig2", "pk_nl"} = {}
        /\ obj.mass = << >> /\ obj.pk_nl = NoRows

FieldErrorBeforeMassWitness ==
    /\ pc = "failed"
    /\ err = "ValueError:field"
    /\ inp.field = "nu"
    /\ "pk_dw" \in attrs

\* the k grid of the call under way
CallK == IF npk.pos # "none" THEN npk.k[1] ELSE inp.k

\* C6 (as claimed): a k grid that is too sparse or too narrow does not make
\* construction fail.
SparseGridNonFatal ==
    (pc # "idle" /\ ~(CallK.n > 100 /\ CallK.lgmax >= 1000 /\ CallK.lgmin <= -3000)) =>
        pc # "failed"

\* C6 (amended): a k grid of 100 points or fewer, or with max k < 10 h/Mpc,
\* or with min k > 0.001 h/Mpc makes the construction of halofit_operator
\* and of nonlinear_pk fail with AssertionError before anything is read or
\* computed: the instance has no attribute at all.
SparseGridAsserts ==
    (pc # "idle" /\ ~(CallK.n > 100 /\ CallK.lgmax >= 1000 /\ CallK.lgmin <= -3000)) =>
        /\ pc = "failed"
        /\ err = "AssertionError"
        /\ attrs = {}
        /\ obj = EmptyObj
        /\ npk.pos \in {"none", "failed"}

\* failed constructions seen for a sparse grid: here of nonlinear_pk
SparseGridAssertsWitness ==
    /\ pc = "failed"
    /\ err = "AssertionError"
    /\ npk.pos = "failed"
    /\ npk.k[1].n = 50

\* C7: a k grid of exactly 100 points spanning [0.001, 10] h/Mpc, which
\* compute_sigma_8 accepts, is accepted by the constructors.
HundredPointsAccepted ==
    (pc # "idle" /\ CallK.n = 100 /\ CallK.lgmin <= -3000 /\ CallK.lgmax >= 1000
         /\ Sigma8Assertions(CallK)) =>
        err # "AssertionError"

(***************************************************************************)
(* Properties of two instances (under SpecTwin): ref is the instance kept, *)
(* obj the one built later.                                                *)
(***************************************************************************)
\* the two calls differ in the field only
SameButField(a, b) ==
    a.z = b.z /\ a.k = b.k /\ a.pk = b.pk /\ a.bao = b.bao /\ a.field # b.field

\* C8: two instances built from identical arguments on the shared default
\* cosmology end with identical P_nl and identical intermediate tables,
\* however many instances were built in between.
Deterministic ==
    (ref.set /\ pc = "done" /\ inp = ref.inp) => obj = ref.obj

\* the twin of the kept instance, finished after another instance was built
\* in between, on the cosmology with massive neutrinos
DeterministicWitness ==
    /\ ref.set
    /\ pc = "done"
    /\ inp = ref.inp
    /\ ref.built >= 2
    /\ cosmo.f_nu_tot > 0
    /\ obj.pk_nl # NoRows

\* C9: the mass grid of every instance is the 512-point logarithmic grid
\* from 1 to 1e18 at every stage after its creation, the same as the kept
\* instance's; between two instances that differ in the field only (on a
\* cosmology with Omega_cb # Omega_m) rho_field and the radii differ.
MassGridFixed ==
    "mass" \in attrs =>
        /\ Len(obj.mass) = NM
        /\ \A j \in 1..NM : obj.mass[j] = (MassLogMax * 1000 * (j - 1)) \div (NM - 1)
        /\ obj.nm = MassPoints
        /\ obj.dlnm = (MassLogMax * 2302585) \div (MassPoints - 1)
        /\ ref.set =>
               /\ obj.mass = ref.obj.mass
               /\ obj.nm = ref.obj.nm
               /\ obj.dlnm = ref.obj.dlnm
        /\ (ref.set /\ SameButField(inp, ref.inp) /\ cosmo.Omega_cb # cosmo.Omega_m) =>
               /\ obj.rho_field # ref.obj.rho_field
               /\ \A j \in 1..NM : obj.rr[j] # ref.obj.rr[j]

\* both fields built, massive neutrinos, the later instance finished
MassGridFixedWitness ==
    /\ ref.set
    /\ pc = "done"
    /\ SameButField(inp, ref.inp)
    /\ cosmo.Omega_cb # cosmo.Omega_m
    /\ "mass" \in attrs

\* C10 (as claimed): with Omega_cb # Omega_m two engines that differ in the
\* field only differ in rho_field, in Delta_v(z) and in r_v(z, M).
FieldChangesDeltav ==
    (ref.set /\ pc = "done" /\ SameButField(inp, ref.inp)
         /\ cosmo.Omega_cb # cosmo.Omega_m) =>
        /\ obj.rho_field # ref.obj.rho_field
        /\ obj.Deltav # ref.obj.Deltav
        /\ \A iz \in 1..obj.nz, j \in 1..NM : obj.rv[iz][j] # ref.obj.rv[iz][j]

\* C10 (amended): with Omega_cb # Omega_m two engines that differ in the
\* field only differ in rho_field and therefore in r_v(z, M) at every
\* (z, M); Delta_v(z), a function of Omega_cb(z) and f_nu alone, is the same
\* in both.
FieldChangesRadius ==
    (ref.set /\ pc = "done" /\ SameButField(inp, ref.inp)
         /\ cosmo.Omega_cb # cosmo.Omega_m) =>
        /\ obj.rho_field # ref.obj.rho_field
        /\ obj.Deltav = ref.obj.Deltav
        /\ \A iz \in 1..obj.nz, j \in 1..NM : obj.rv[iz][j] # ref.obj.rv[iz][j]

\* a 'cb' engine kept and a 'tot' engine finished on two redshifts
FieldChangesRadiusWitness ==
    /\ ref.set
    /\ pc = "done"
    /\ ref.inp.field = "cb"
    /\ inp.field = "tot"
    /\ SameButField(inp, ref.inp)
    /\ cosmo.Omega_cb # cosmo.Omega_m
    /\ Len(obj.Deltav) = 2

(***************************************************************************)
(* Properties of the tables of one instance (under Spec).                  *)
(***************************************************************************)
\* log10 of 1 - e^(-x) for x = 10^(lgx/1000)
LgOneMinusExp(lgx) == IF lgx < -2000 THEN lgx ELSE LgF(Max(1, 1000 - ExpNeg(lgx)))

\* log10 of 1 - e^(-2x) = 1 - (e^(-x))^2
LgOneMinusExpSq(lgx) ==
    IF lgx < -2000 THEN 301 + lgx
    ELSE LgF(Max(1, 1000 - (ExpNeg(lgx) * ExpNeg(lgx)) \div 1000))

\* the 1-halo term with its low-k factor of log10 value d(lg(k/k_star))
OneHaloWith(d(_)) ==
    \A iz \in 1..obj.nz, ik \in 1..NK :
        obj.pk_1h[iz][ik] =
            Scale(OneHaloIntegral(obj, iz, ik), d(obj.k[ik] - obj.k_star[iz]))

SixthOfOneMinusExp(lgx) == 6 * LgOneMinusExp(lgx)

CubeOfOneMinusExpSq(lgx) == 3 * LgOneMinusExpSq(lgx)

\* C11 (as claimed): the 1-halo term is the mass integral times
\* (1 - exp(-k/k_star))^6 at every (z, k).
OneHaloDampedSixth == pc = "done" => OneHaloWith(SixthOfOneMinusExp)

\* C11 (amended): the 1-halo term is the mass integral times
\* (1 - exp(-k/k_star)^2)^3 = (1 - exp(-2 k/k_star))^3 at every (z, k).
OneHaloDampedCube == pc = "done" => OneHaloWith(CubeOfOneMinusExpSq)

\* a finished instance with a non-zero 1-halo term at a k where the two
\* factors differ
OneHaloDampedCubeWitness ==
    /\ pc = "done"
    /\ \E iz \in 1..obj.nz, ik \in 1..NK :
           /\ obj.pk_1h[iz][ik].s = "pos"
           /\ SixthOfOneMinusExp(obj.k[ik] - obj.k_star[iz])
                  # CubeOfOneMinusExpSq(obj.k[ik] - obj.k_star[iz])

\* sigma^2 of redshift iz does not increase along the mass grid
SigmaNonIncreasing(iz) ==
    \A j \in 1..(NM - 1) : obj.sig2[iz][j] >= obj.sig2[iz][j + 1]

\* C12 (as claimed): at fixed z (sigma non-increasing in M) the formation
\* redshift is monotone non-decreasing along the mass grid.
ZFormNonDecreasing ==
    obj.zf # NoRows =>
        \A iz \in 1..obj.nz :
            SigmaNonIncreasing(iz) =>
                \A j \in 1..(NM - 1) : obj.zf[iz][j] <= obj.zf[iz][j + 1]

\* C12 (amended): at fixed z (sigma non-increasing in M) the formation
\* redshift is monotone non-increasing in M from any mass whose growth
\* target is not below the tabulated D1 range (below it z_f is clamped to z).
ZFormNonIncreasing ==
    obj.zf # NoRows =>
        \A iz \in 1..obj.nz :
            SigmaNonIncreasing(iz) =>
                \A j \in 1..NM, m \in 1..NM :
                    (j < m /\ ZfTarget(iz, j) >= Dzf[NZT])
                        => obj.zf[iz][j] >= obj.zf[iz][m]

\* a row of formation redshifts that falls strictly between two masses whose
\* targets are inside the tabulated range
ZFormNonIncreasingWitness ==
    /\ obj.zf # NoRows
    /\ \E iz \in 1..obj.nz, j \in 1..(NM - 1) :
           /\ SigmaNonIncreasing(iz)
           /\ ZfDInRange(ZfTarget(iz, j))
           /\ ZfDInRange(ZfTarget(iz, j + 1))
           /\ obj.zf[iz][j] > obj.zf[iz][j + 1]

\* C13: at fixed z the peak height nu = delta_c / sigma is monotone
\* non-decreasing along the mass grid whenever sigma^2 is non-increasing in
\* M and delta_c > 0.
NuNonDecreasing ==
    obj.nu # NoRows =>
        \A iz \in 1..obj.nz :
            (SigmaNonIncreasing(iz) /\ obj.deltac[iz] > 0) =>
                \A j \in 1..(NM - 1) : obj.nu[iz][j] <= obj.nu[iz][j + 1]

\* a table of peak heights that grows strictly from the lightest to the
\* heaviest mass, on two redshifts
NuNonDecreasingWitness ==
    /\ obj.nu # NoRows
    /\ obj.nz = 2
    /\ \A iz \in 1..obj.nz :
           /\ SigmaNonIncreasing(iz)
           /\ obj.deltac[iz] > 0
           /\ obj.nu[iz][1] < obj.nu[iz][NM]

\* C15: when nonlinear_pk returns, the operator was run on the cb-cb
\* spectrum with field 'cb', the cb-nu and nu-nu spectra are the linear
\* ones of the solver, and pk_nl = f_cb^2 pk_nl_cbcb + 2 f_nu f_cb pk_cbnu
\* + f_nu^2 pk_nunu; with Eisenstein-Hu the cross and neutrino spectra are
\* zero and pk_nl = f_cb^2 pk_nl_cbcb.
TotalMatterCombination ==
    npk.pos = "done" =>
        LET lin == LinearSpectra(npk.code, inp.z, inp.k)
            fcb2 == (cosmo.f_cb * cosmo.f_cb) \div 1000
            fx == (2 * cosmo.f_nu_tot * cosmo.f_cb) \div 1000
            fnu2 == (cosmo.f_nu_tot * cosmo.f_nu_tot) \div 1000
        IN  /\ inp.field = "cb"
            /\ inp.pk = SolverPk
            /\ npk.pk_nl_cbcb = obj.pk_nl
            /\ npk.pk_cbnu = lin.pk_cbnu
            /\ npk.pk_nunu = lin.pk_nunu
            /\ \A i \in 1..obj.nz : \A ik \in 1..NK :
                  /\ npk.pk_nl[i][ik] =
                        SignedSum(<<Times(fcb2, npk.pk_nl_cbcb[i][ik]),
                                    Times(fx, npk.pk_cbnu[i][ik]),
                                    Times(fnu2, npk.pk_nunu[i][ik])>>)
                  /\ npk.code = "eh" =>
                        /\ npk.pk_cbnu[i][ik] = Zero
                        /\ npk.pk_nunu[i][ik] = Zero
                        /\ npk.pk_nl[i][ik] = Times(fcb2, npk.pk_nl_cbcb[i][ik])

\* a CAMB run with massive neutrinos, where the cross term counts
TotalMatterCombinationWitness ==
    /\ npk.pos = "done"
    /\ npk.code = "camb"
    /\ cosmo.f_nu_tot > 0
    /\ npk.pk_nl[1][1] # Times((cosmo.f_cb * cosmo.f_cb) \div 1000, npk.pk_nl_cbcb[1][1])

\* the stages of compute_nonlinear_pk in the order of its statements, the
\* tables each one reads and the tables each one assigns
Stages == <<"sigma", "fit", "nu", "zform", "halo", "profile", "hmf", "assemble">>

StageReads(st) ==
    CASE st = "sigma"    -> {"pk", "mass", "rr"}
      [] st = "fit"      -> {"sig8", "sigd100", "sigd"}
      [] st = "nu"       -> {"deltac", "sig2"}
      [] st = "zform"    -> {"deltac", "sig2", "mass"}
      [] st = "halo"     -> {"deltac", "sig2", "zf", "Deltav", "mass", "rho_field"}
      [] st = "profile"  -> {"nu", "eta", "rs", "conc"}
      [] st = "hmf"      -> {"nu", "mass", "rho_field"}
      [] st = "assemble" -> {"hmf", "u", "k_star", "fdamp", "alpha", "pk_dw", "sigd",
                             "mass", "rho_field"}

StageWrites(st) ==
    CASE st = "sigma"    -> {"sig8", "sig2", "sigd100", "sigd"}
      [] st = "fit"      -> {"omz", "ocz", "Deltav", "deltac", "fdamp", "eta", "k_star"}
      [] st = "nu"       -> {"nu"}
      [] st = "zform"    -> {"zf"}
      [] st = "halo"     -> {"n_eff", "conc", "rv", "alpha", "rs"}
      [] st = "profile"  -> {"u"}
      [] st = "hmf"      -> {"hmf"}
      [] st = "assemble" -> {"pk_1h", "pk_2h", "pk_nl"}

StageIndex(st) == CHOOSE a \in 1..Len(Stages) : Stages[a] = st

Computed(f) == obj[f] # EmptyObj[f]

\* C16: data flows downstream: at every stage the tables it reads are
\* computed, the tables of the later stages are not yet, the step assigns
\* only the tables of its own stage and, unless it fails, fills them all.
DownstreamStep ==
    (\E a \in 1..Len(Stages) : Stages[a] = pc) =>
        /\ \A f \in StageReads(pc) : Computed(f)
        /\ \A a \in (StageIndex(pc) + 1)..Len(Stages) :
              \A f \in StageWrites(Stages[a]) : ~Computed(f)
        /\ \A f \in DOMAIN obj : obj'[f] # obj[f] => f \in StageWrites(pc)
        /\ pc' \notin {pc, "failed"} =>
              /\ StageIndex(pc) < Len(Stages) => pc' = Stages[StageIndex(pc) + 1]
              /\ \A f \in StageWrites(pc) : obj'[f] # EmptyObj[f]

DataFlowsDownstream == [][DownstreamStep]_vars

\* a run of two redshifts that went through every stage
DataFlowsDownstreamWitness ==
    /\ pc = "done"
    /\ err = "none"
    /\ obj.nz = 2
    /\ \A a \in 1..Len(Stages) : \A f \in StageWrites(Stages[a]) : Computed(f)

\* every entry of table t was assigned n times (at most n times)
AllAssigned(t, n) ==
    \A i \in 1..Len(writes[t]) : \A j \in 1..Len(writes[t][i]) : writes[t][i][j] = n

AtMostAssigned(t, n) ==
    \A i \in 1..Len(writes[t]) : \A j \in 1..Len(writes[t][i]) : writes[t][i][j] <= n

\* C17 (as claimed): no entry of sigma^2, nu, z_f, concentration, r_v,
\* P_1h, P_2h or P_nl is assigned more than once after the allocation of
\* its table.
WriteOnceEverywhere == \A t \in WrittenTables : AtMostAssigned(t, 1)

\* C17: no entry of sigma^2, nu, concentration, r_v, P_2h or P_nl is
\* assigned more than once; every entry of P_1h is assigned twice (the
\* integral, then the damping in place), an entry of z_f twice when the
\* inverted value is below z and once otherwise; once P_nl is created no
\* later step of the run modifies it.
WriteCounts ==
    /\ \A t \in {"sig2", "nu", "conc", "rv", "pk_2h", "pk_nl"} : AtMostAssigned(t, 1)
    /\ AllAssigned("pk_1h", 2)
    /\ AtMostAssigned("zf", 2)
    /\ \A i \in 1..Len(writes.zf) : \A j \in 1..NM :
          writes.zf[i][j] = 2 <=>
              /\ ZfDInRange(ZfTarget(i, j))
              /\ ZfD(ZfTarget(i, j)) < obj.z[i]

WriteOnceStep ==
    /\ WriteCounts
    /\ (obj.pk_nl # NoRows /\ obj'.pk_nl # NoRows) => obj'.pk_nl = obj.pk_nl

WriteOnceButOneHalo == [][WriteOnceStep]_vars

\* a finished run in which an entry of z_f was assigned twice and another
\* one once
WriteOnceButOneHaloWitness ==
    /\ pc = "done"
    /\ writes.pk_1h # NoRows
    /\ \E i \in 1..obj.nz : \E j, m \in 1..NM : writes.zf[i][j] = 2 /\ writes.zf[i][m] = 1

\* the search for M_1 at redshift i fails: the seed is outside the mass
\* grid, or sig2 - deltac^2 does not change sign on it
RootSearchFails(i) ==
    \/ M1Seed(obj.z[i]) < obj.mass[1]
    \/ M1Seed(obj.z[i]) > obj.mass[NM]
    \/ \A j \in 1..(NM - 1) :
          ~(obj.sig2[i][j] >= 2 * LgF(obj.deltac[i]) /\ obj.sig2[i][j + 1] < 2 * LgF(obj.deltac[i]))

\* C18: when the search for M_1 fails at a redshift, n_eff is computed at
\* the seed 10^(13 - 1.75 (1+z)) and the construction goes on without an
\* error.
RootFallback ==
    pc \in {"profile", "hmf", "assemble", "done"} =>
        /\ err = "none"
        /\ Len(obj.n_eff) = obj.nz
        /\ \A i \in 1..obj.nz :
              RootSearchFails(i) =>
                  obj.n_eff[i] = -3000 - 3 * LogDer(obj, i, 13000 - (1750 * (1000 + obj.z[i])) \div 1000)

\* a finished run where the search failed at one redshift because the seed
\* is below the grid, and succeeded at another
RootFallbackWitness ==
    /\ pc = "done"
    /\ \E i, m \in 1..obj.nz :
          /\ M1Seed(obj.z[i]) < obj.mass[1]
          /\ ~RootSearchFails(m)

\* C19: the mass M_1 at which the derivative of the spline is taken lies
\* inside the range of the mass grid, whether it is the root or the seed.
M1InsideGrid ==
    pc \in {"profile", "hmf", "assemble", "done"} =>
        \A i \in 1..obj.nz :
            /\ obj.mass[1] <= M_1(obj, i)
            /\ M_1(obj, i) <= obj.mass[NM]

\* lines 474-478: the entry (i, j) of z_f was set to z
ZfClampedAt(i, j) ==
    \/ ~ZfDInRange(ZfTarget(i, j))
    \/ ZfD(ZfTarget(i, j)) < obj.z[i]

\* C20: c(z, M) >= A_bar, with equality exactly when z_f was clamped to
\* z; consequently r_s = r_v / c is positive and at most r_v / A_bar.
ConcentrationFloor ==
    pc \in {"profile", "hmf", "assemble", "done"} =>
        \A i \in 1..obj.nz : \A j \in 1..NM :
            /\ obj.conc[i][j] >= A_bar
            /\ obj.conc[i][j] = A_bar <=> ZfClampedAt(i, j)
            /\ obj.rs[i][j] = obj.rv[i][j] - LgF(obj.conc[i][j])
            /\ obj.rs[i][j] <= obj.rv[i][j] - LgF(A_bar)

\* a finished run with a clamped entry (c = A_bar) and an entry with
\* c > A_bar and r_s < r_v / A_bar
ConcentrationFloorWitness ==
    /\ pc = "done"
    /\ \E i \in 1..obj.nz : \E j, m \in 1..NM :
          /\ ZfClampedAt(i, j)
          /\ obj.conc[i][j] = A_bar
          /\ obj.conc[i][m] > A_bar
          /\ obj.rs[i][m] < obj.rv[i][m] - LgF(A_bar)

\* the arrays of the caller as the instance sees them (self.z, self.k and
\* self.pk are the caller's objects, and so are self.pk_nw and self.pk_dw
\* without smearing) hold the values the caller passed
CallerArraysIntact ==
    obj # EmptyObj =>
        /\ obj.z = inp.z.vals
        /\ obj.k = KSample(inp.k)
        /\ obj.pk = PkArray(inp.pk, inp.z, inp.k)
        /\ ("pk_dw" \in attrs /\ ~inp.bao) =>
              /\ obj.pk_nw = PkArray(inp.pk, inp.z, inp.k).lg
              /\ obj.pk_dw = PkArray(inp.pk, inp.z, inp.k).lg

\* C21: constructing a halofit_operator only reads its inputs: no step of
\* the construction changes the arguments z, k, pk of the caller or an
\* attribute of the cosmology object, with and without BAO smearing.
InputsOnlyReadStep ==
    /\ cosmo' = cosmo
    /\ CallerArraysIntact
    /\ pc \notin {"idle", "done", "failed"} => inp' = inp

InputsOnlyRead == [][InputsOnlyReadStep]_vars

\* a finished construction with smearing (new arrays pk_nw, pk_dw next to
\* the caller's pk) in a cosmology with massive neutrinos
InputsOnlyReadWitness ==
    /\ pc = "done"
    /\ err = "none"
    /\ inp.bao
    /\ obj.pk_dw # obj.pk.lg
    /\ cosmo.Omega_cb # cosmo.Omega_m

\* C23: after construction the stored redshift grid is one-dimensional
\* with exactly nz scalar entries, however z was passed (a scalar, a
\* one-element sequence, a longer sequence), and pk_nl has nz rows of nk
\* values.
ZGridOneDimensional ==
    pc = "done" =>
        /\ obj.zdim = 1
        /\ Len(obj.z) = obj.nz
        /\ obj.nz = Len(inp.z.vals)
        /\ Len(obj.pk_nl) = obj.nz
        /\ \A i \in 1..obj.nz : Len(obj.pk_nl[i]) = NK

\* C24: nonlinear_pk with a code name that is not an accepted one (k
\* being valid) raises NameError before any BAO smoothing and before the
\* Halofit operator is constructed: pk_nl, pk_nl_cbcb, pk_nw and pk_dw do
\* not exist on the failed instance.
UnknownCodeNameError ==
    (npk.pos # "none" /\ npk.code \notin {"camb", "class", "eh"} /\ KAssertions(npk.k[1])) =>
        /\ npk.pos = "failed"
        /\ pc = "failed"
        /\ err = "NameError"
        /\ removeBaoCalls = 0
        /\ obj = EmptyObj
        /\ attrs = {}
        /\ npk.pk_nl = NoRows
        /\ npk.pk_nl_cbcb = NoRows
        /\ npk.pk_nw = NoRows
        /\ npk.pk_dw = NoRows

\* a call with an unknown solver, a valid k and smoothing asked for
UnknownCodeNameErrorWitness ==
    /\ npk.pos = "failed"
    /\ err = "NameError"
    /\ npk.code = "halofit"
    /\ npk.bao
    /\ KAssertions(npk.k[1])

(***************************************************************************)
(* Properties of a pipeline run again (under SpecAgain).                   *)
(***************************************************************************)
\* C22: calling compute_nonlinear_pk again on a constructed instance, any
\* number of times, returns the k and pk_nl of the construction and
\* leaves every table with the values the construction gave it.
RecomputeIdempotent ==
    ref.set =>
        /\ obj = ref.obj
        /\ pc = "done" => obj.k = ref.obj.k /\ obj.pk_nl = ref.obj.pk_nl

\* the pipeline was run a second time after the construction, on two
\* redshifts, and has returned
RecomputeIdempotentWitness ==
    /\ pc = "done"
    /\ ref.built = 2
    /\ obj.nz = 2
    /\ obj.pk_nl # NoRows
    /\ obj.pk_nl = ref.obj.pk_nl

(***************************************************************************)
(* Properties of limber_GW.limber (under SpecLimber).                      *)
(***************************************************************************)
\* C25: whenever load_power_spectra has not completed on the instance,
\* limber_angular_power_spectra raises AttributeError('Power spectra have
\* not been loaded yet') and returns nothing, whatever windows are loaded.
SpectraNeedPowerSpectra ==
    (lim.last.op = "limber_angular_power_spectra" /\ ~lim.interp) =>
        /\ lim.last.err = "AttributeError:Power spectra have not been loaded yet"
        /\ lim.last.keys = {}
        /\ lim.last.Cl = << >>

\* the call made with two windows loaded, after a load_power_spectra that
\* raised half-way
SpectraNeedPowerSpectraWitness ==
    /\ lim.last.op = "limber_angular_power_spectra"
    /\ lim.last.err = "AttributeError:Power spectra have not been loaded yet"
    /\ lim.k_set
    /\ ~lim.interp
    /\ Len(lim.order) >= 2

\* the window name is loaded on the instance
WindowLoaded(name) == name \in WindowNames /\ lim.win[name].kind # "absent"

\* the last call was limber_angular_power_spectra with power spectra
\* loaded and multipoles in range
CalledInRange ==
    /\ lim.last.op = "limber_angular_power_spectra"
    /\ lim.interp
    /\ lim.last.l.range = "ok"

WindowErrors ==
    CalledInRange =>
        LET r == lim.last
            unknown == {a \in 1..Len(r.sel.names) : ~WindowLoaded(r.sel.names[a])}
        IN  /\ (~r.sel.none /\ unknown # {}) =>
                  /\ r.err = "KeyError"
                  /\ r.keys = {r.sel.names[CHOOSE a \in unknown : \A b \in unknown : a <= b]}
                  /\ r.Cl = << >>
            /\ ((r.sel.none /\ \A w \in WindowNames : ~WindowLoaded(w))
                    \/ (~r.sel.none /\ r.sel.names = << >>)) =>
                  /\ r.err = "AttributeError:No window function has been computed!"
                  /\ r.keys = {}
                  /\ r.Cl = << >>
            /\ r.err = "none" =>
                  \A pr \in r.keys : WindowLoaded(pr[1]) /\ WindowLoaded(pr[2])

\* C26: with power spectra loaded, a requested window that was never
\* loaded raises KeyError naming it, and a call with no window loaded or
\* an empty selection raises AttributeError('No window function has been
\* computed!'); spectra are computed for loaded windows only; no
\* dictionary is returned in the two cases and the call leaves the loaded
\* windows as they were.
WindowErrorsStep ==
    /\ WindowErrors'
    /\ lim'.last.op = "limber_angular_power_spectra" =>
          /\ lim'.win = lim.win
          /\ lim'.order = lim.order
          /\ lim'.interp = lim.interp

UnknownWindowKeyError == [][WindowErrorsStep]_vars

\* a call that asked for 'shear' with power spectra and two windows loaded
UnknownWindowKeyErrorWitness ==
    /\ lim.interp
    /\ Len(lim.order) >= 2
    /\ lim.last.op = "limber_angular_power_spectra"
    /\ lim.last.err = "KeyError"
    /\ lim.last.keys = {"shear"}

\* the windows a call selects: those named, or all the loaded ones
SelectedWindows ==
    IF lim.last.sel.none THEN {w \in WindowNames : WindowLoaded(w)}
    ELSE {lim.last.sel.names[a] : a \in 1..Len(lim.last.sel.names)}

\* C27: the dictionary returned by limber_angular_power_spectra has a key
\* 'X-Y' for every ordered pair of selected windows, of shape (bins of X,
\* bins of Y, number of multipoles), and Cl['X-Y'][i,j,l] = Cl['Y-X'][j,i,l]
\* for all windows, bins and multipoles, X = Y included.
SpectraSymmetric ==
    (lim.last.op = "limber_angular_power_spectra" /\ lim.last.err = "none") =>
        LET Cl == lim.last.Cl
        IN  /\ lim.last.keys = SelectedWindows \X SelectedWindows
            /\ DOMAIN Cl = SelectedWindows \X SelectedWindows
            /\ \A X, Y \in SelectedWindows :
                  /\ Len(Cl[<<X, Y>>]) = lim.win[X].bins
                  /\ \A bi \in 1..lim.win[X].bins :
                        /\ Len(Cl[<<X, Y>>][bi]) = lim.win[Y].bins
                        /\ \A bj \in 1..lim.win[Y].bins :
                              /\ Len(Cl[<<X, Y>>][bi][bj]) = lim.last.l.n
                              /\ \A il \in 1..lim.last.l.n :
                                    Cl[<<X, Y>>][bi][bj][il] = Cl[<<Y, X>>][bj][bi][il]

\* spectra returned for two windows, one of them with two bins, at two
\* multipoles
SpectraSymmetricWitness ==
    /\ lim.last.op = "limber_angular_power_spectra"
    /\ lim.last.err = "none"
    /\ lim.last.l.n = 2
    /\ <<"galaxy", "GW">> \in lim.last.keys
    /\ lim.win["galaxy"].bins = 2
    /\ lim.last.Cl[<<"galaxy", "galaxy">>][2][1][2] # 0
    /\ lim.last.Cl[<<"GW", "galaxy">>][1][2][1] # 0

\* C28: a window added with load_custom_window_functions is usable like
\* the built-in ones: with power spectra loaded,
\* limber_angular_power_spectra(l, windows = [name]) (or windows = None)
\* returns a dictionary with 'name-name', one entry per pair of bins and
\* multipole, without raising.
CustomWindowUsable ==
    (/\ CalledInRange
     /\ lim.win["mine"].kind = "list"
     /\ \/ lim.last.sel = [none |-> FALSE, names |-> <<"mine">>]
        \/ lim.last.sel.none /\ lim.order = <<"mine">>) =>
        /\ lim.last.err = "none"
        /\ <<"mine", "mine">> \in lim.last.keys
        /\ Len(lim.last.Cl[<<"mine", "mine">>]) = lim.win["mine"].bins
        /\ \A bi \in 1..lim.win["mine"].bins :
              /\ Len(lim.last.Cl[<<"mine", "mine">>][bi]) = lim.win["mine"].bins
              /\ \A bj \in 1..lim.win["mine"].bins :
                    Len(lim.last.Cl[<<"mine", "mine">>][bi][bj]) = lim.last.l.n

(***************************************************************************)
(* Properties of the methods (under SpecCall).                             *)
(***************************************************************************)
\* C14: u_NFW(c, 0) is exactly 1 for every concentration c > 0, and u_NFW
\* returns no nan for the arguments it is given.
UNFWNormalised ==
    (call.fn = "u_NFW" /\ call.done) =>
        /\ call.ret.s # "nan"
        /\ call.x.s = "zero" => call.ret = Pos(0)

\* C29: limber_3x2pt.load_power_spectra called without galaxy_bias (None)
\* interpolates a bias table of ones of shape (len(z), len(k)): both
\* power_spectra_interpolator and galaxy_bias_interpolator are created and
\* nothing is raised.
BiasDefaultsToOnes ==
    (/\ call.fn = "load_power_spectra"
     /\ call.done
     /\ call.x.bias = "None"
     /\ call.x.pk = "ok") =>
        /\ call.ret.err = "none"
        /\ call.ret.table = [rows |-> call.x.nz, cols |-> call.x.nk, ones |-> TRUE]
        /\ {"power_spectra_interpolator", "galaxy_bias_interpolator"}
               \subseteq call.ret.attrs

====
